---- MODULE Spec2Model ----
(***************************************************************************)
(* Co-sign checkout: the proposal quorum engine.                           *)
(*                                                                         *)
(* The store (rooms, proposals, events) is a relational database reached   *)
(* through single select / insert / update calls.  A request handler is a  *)
(* sequence of such calls; other handlers may run between two calls of one *)
(* handler.  Every handler is therefore modelled by one action per store   *)
(* round trip that can interleave: the selects (with every check made on   *)
(* the rows read) form one action, the writes that follow form another.    *)
(***************************************************************************)
EXTENDS Integers, Sequences, FiniteSets, Bags, TLC

VARIABLES
  rooms,        \* table public.rooms: room id -> row
  proposals,    \* table public.proposals: sequence of rows, the id is the index
  events,       \* table public.events: bag of rows (append-only)
  now,          \* wall clock, in hours
  createReqs,   \* bag of create handlers between their selects and their insert
  signReqs,     \* bag of sign handlers between their selects and their update
  submitReqs,   \* bag of submit handlers between their selects and their update
  response,     \* the HTTP response sent by the step just taken, if any
  clients,      \* the browser clients: where each is in submitProposal
  page          \* the room page of one browser: what it fetched and derived

vars == <<rooms, proposals, events, now, createReqs, signReqs, submitReqs,
          response, clients, page>>

----------------------------------------------------------------------------
(* Bounds of the model *)

\* Handlers between their selects and their write.
MaxInFlight == 2
\* Rows of the events table.
MaxEvents == 6
\* Rows of the proposals table when one proposal's life is followed.
MaxProposals == 1
\* Rows of the proposals table where creators race.
MaxRacingProposals == 2
\* The clock stops once it is past this hour.
MaxNow == 25
\* Earlier proposals in the thread a page opens on.
MaxHistory == 2
\* Rows of a thread the page follows while proposals are added to it.
MaxThread == 4
\* Poll ticks, change notifications and focus events one page receives.
MaxTriggers == 4

----------------------------------------------------------------------------
(* Program constants *)

DEFAULT_ROOM_TTL_HOURS == 24

ACTIVE_STATUSES == {"pending", "ready"}

TerminalStatuses == {"submitted", "failed", "expired"}

ProposalKinds == {"create_session", "operate", "close_session"}

----------------------------------------------------------------------------
(* Input domains *)

RoomIds == {"r1"}

\* EVM addresses as the requests spell them: checksum (mixed) case and lower
\* case; 0xAA and 0xBB become the room's participants, 0xCC is an outsider.
Wallets == {"0xAA", "0xbb", "0xCC"}

RoomCreators == {"0xAA"}

RoomCounterparties == {"0xBB", "0xaa"}

QuorumInputs == {0, 50, 100}

HashInputs == {"h1"}

PayloadInputs == {[intent |-> "operate"]}

\* A wallet quorum signature: the key that made it, the hash it was made over,
\* and whether the blob carries the 0xa1 envelope prefix.
SignatureInputs ==
  { [prefix |-> FALSE, signer |-> "0xAA", hash |-> "h1"],
    [prefix |-> TRUE,  signer |-> "0xAA", hash |-> "h1"],
    [prefix |-> FALSE, signer |-> "0xBB", hash |-> "h1"],
    [prefix |-> FALSE, signer |-> "0xBB", hash |-> "h2"] }

PlainSignatures ==
  { [prefix |-> FALSE, signer |-> "0xAA", hash |-> "h1"],
    [prefix |-> FALSE, signer |-> "0xBB", hash |-> "h1"] }

\* Bodies of the submit request; "absent" is a field the body leaves out, the
\* empty error text counts as absent (it is falsy).
SubmitBodies ==
  { [outcome |-> "submitted", sdkResult |-> "res1", appSessionId |-> "s1", error |-> <<>>],
    [outcome |-> "absent", sdkResult |-> "absent", appSessionId |-> "absent", error |-> <<>>],
    [outcome |-> "failed", sdkResult |-> "absent", appSessionId |-> "absent",
     error |-> <<"boom">>] }

\* The wallets whose browser clients the model runs.
ClientWallets == {"0xAA", "0xbb"}

\* What the session service throws, as the client reads it (error.message).
ExternalErrors ==
  { <<"Connection", "closed">>, <<"socket", "closed">>, <<"Network", "error">>,
    <<"request", "timed", "out">>, <<"insufficient", "allowance">> }

\* What fetchRooms / fetchRoomThread throw.
RefreshErrors == { <<"Failed", "to", "fetch", "rooms">> }

\* Reports of a created session, under two different session ids.
SessionBodies ==
  { [outcome |-> "submitted", sdkResult |-> "res1", appSessionId |-> "s1", error |-> <<>>],
    [outcome |-> "submitted", sdkResult |-> "res1", appSessionId |-> "s2", error |-> <<>>] }

FailedBodies ==
  { [outcome |-> "failed", sdkResult |-> "absent", appSessionId |-> "absent",
     error |-> <<"boom">>] }

\* The room the page has open, as the rooms route stores it.
PageRoom ==
  [participant_a |-> "0xaa", participant_b |-> "0xbb", asset_symbol |-> "usdc",
   app_session_id |-> "s1"]

\* Allocation lists as payloads and the session service spell them: addresses
\* in checksum or lower case, asset symbols in either case, amounts in raw
\* units; an entry of another asset and one of an outsider among them.
AllocationA5B0 ==
  << [participant |-> "0xAA", asset |-> "USDC", amount |-> 5000000],
     [participant |-> "0xBB", asset |-> "usdc", amount |-> 0] >>

AllocationA4B1 ==
  << [participant |-> "0xaa", asset |-> "usdc", amount |-> 4000000],
     [participant |-> "0xbb", asset |-> "usdc", amount |-> 1000000] >>

AllocationB1 ==
  << [participant |-> "0xbb", asset |-> "usdc", amount |-> 1000000] >>

AllocationForeign ==
  << [participant |-> "0xAA", asset |-> "WETH", amount |-> 7000000],
     [participant |-> "0xCC", asset |-> "usdc", amount |-> 9000000] >>

AllocationLists ==
  { <<>>, AllocationA5B0, AllocationA4B1, AllocationB1, AllocationForeign }

\* A JSON value in a version field: left out, a number, or a string.
NoVersion == [type |-> "undefined", number |-> 0, text |-> ""]

NumberVersion(n) == [type |-> "number", number |-> n, text |-> ""]

StringVersion(s) == [type |-> "string", number |-> 0, text |-> s]

\* The room's session as core.sessions holds it; present = FALSE is no entry
\* for the room's session id. An empty version is a version left out.
NoSession == [present |-> FALSE, allocations |-> <<>>, version |-> <<>>]

SessionInputs ==
  { NoSession,
    [present |-> TRUE, allocations |-> <<>>, version |-> <<1>>],
    [present |-> TRUE, allocations |-> AllocationA5B0, version |-> <<2>>],
    [present |-> TRUE, allocations |-> AllocationA4B1, version |-> <<3>>] }

\* A row of the thread as GET /api/proposals returns it. An empty allocation
\* list stands for a payload without allocations as well: every reader takes
\* the two alike.
FetchedProposal(status, kind, intent, allocations, version, sdkVersion) ==
  [status |-> status, kind |-> kind,
   payload_json |-> [intent |-> intent, allocations |-> allocations, version |-> version],
   sdk_result_json |-> [version |-> sdkVersion]]

\* Earlier proposals of the room.
HistoryProposals ==
  { FetchedProposal("submitted", "operate", "operate", AllocationA4B1, NumberVersion(3), NoVersion),
    FetchedProposal("submitted", "operate", "deposit", AllocationB1, NumberVersion(2), NoVersion),
    FetchedProposal("submitted", "create_session", "", AllocationA5B0, NoVersion, NoVersion),
    FetchedProposal("failed", "operate", "operate", AllocationForeign, NumberVersion(2), NoVersion) }

Histories ==
  UNION { [1..n -> HistoryProposals] : n \in 0..MaxHistory }

\* The proposal under review on the ledger pages: a purchase, fully signed.
ReviewProposals ==
  { FetchedProposal("ready", "operate", "operate", l, NumberVersion(4), NoVersion) :
      l \in AllocationLists }

\* Allocation lists of deposit payloads: each participant listed once at most,
\* in either order.
DepositEntriesA ==
  { [participant |-> "0xAA", asset |-> "USDC", amount |-> n] : n \in {0, 5000000, 6000000} }

DepositEntriesB ==
  { [participant |-> "0xBB", asset |-> "usdc", amount |-> n] : n \in {0, 1000000, 5000000} }

DepositLists ==
  {<<>>} \cup { <<e>> : e \in DepositEntriesA \cup DepositEntriesB }
         \cup { <<a, b>> : a \in DepositEntriesA, b \in DepositEntriesB }
         \cup { <<b, a>> : a \in DepositEntriesA, b \in DepositEntriesB }

\* The proposal a participant is about to apply: its kind and intent, whether
\* it is fully signed, and its allocation list.
KindsAndIntents ==
  { <<"create_session", "">>, <<"operate", "deposit">>, <<"operate", "operate">>,
    <<"close_session", "">> }

ApplyProposals ==
  { FetchedProposal(s, k[1], k[2], l, NumberVersion(2), NoVersion) :
      s \in ACTIVE_STATUSES, k \in KindsAndIntents, l \in DepositLists }

DepositSessions ==
  { NoSession,
    [present |-> TRUE, allocations |-> AllocationA5B0, version |-> <<1>>],
    [present |-> TRUE, allocations |-> AllocationA4B1, version |-> <<1>>] }

\* Versions as threads and the session service report them.
VersionedProposals ==
  { FetchedProposal("submitted", "create_session", "", <<>>, NoVersion, NoVersion),
    FetchedProposal("submitted", "create_session", "", <<>>, NoVersion, StringVersion("2")),
    FetchedProposal("submitted", "operate", "operate", <<>>, NumberVersion(3), NoVersion),
    FetchedProposal("submitted", "operate", "deposit", <<>>, StringVersion("5"), NoVersion),
    FetchedProposal("submitted", "operate", "operate", <<>>, StringVersion("abc"), NoVersion),
    FetchedProposal("failed", "operate", "operate", <<>>, NumberVersion(9), NoVersion) }

VersionedThreads ==
  UNION { [1..n -> VersionedProposals] : n \in 0..MaxHistory }

VersionedSessions ==
  { NoSession,
    [present |-> TRUE, allocations |-> <<>>, version |-> <<>>],
    [present |-> TRUE, allocations |-> <<>>, version |-> <<1>>],
    [present |-> TRUE, allocations |-> <<>>, version |-> <<4>>] }

\* Rooms as the rooms table may hold them, addresses in either case.
StoredRooms ==
  { [participant_a |-> a, participant_b |-> b, status |-> "open", app_session_id |-> "null"] :
      a \in {"0xaa", "0xAA"}, b \in {"0xbb", "0xBB"} }

\* Signature maps as a row may hold them when they were not written by the
\* sign route: keys in either case, and the key of an outsider.
StoredSignatureKeys == {"0xAA", "0xaa", "0xBB", "0xbb", "0xCC"}

StoredSignatureMaps ==
  { [k \in keys |-> [prefix |-> FALSE, signer |-> k, hash |-> "h1"]] :
      keys \in SUBSET StoredSignatureKeys }

\* Threads GET /api/proposals returns to a sync.
SyncThreads ==
  { <<>>,
    <<FetchedProposal("pending", "operate", "operate", <<>>, NumberVersion(2), NoVersion)>> }

\* Room lists GET /api/rooms returns to a sync.
SyncRoomLists == { {}, {"r1"} }

\* What the amount field of the proposal form holds.
AmountInputs == {"-1", "0", "1", "1.25", "6"}

----------------------------------------------------------------------------
(* lib/relay *)

\* Addresses taken as they are spelled.
normalizeAddressAsSpelled(value) == value

\* Addresses folded to upper case.
normalizeAddressToUpperCase(value) ==
  CASE value = "0xaa" -> "0xAA"
    [] value = "0xbb" -> "0xBB"
    [] value = "0xcc" -> "0xCC"
    [] value = "0xee" -> "0xEE"
    [] OTHER -> value

normalizeAddress(value) ==
  CASE value = "0xAA" -> "0xaa"
    [] value = "0xBB" -> "0xbb"
    [] value = "0xCC" -> "0xcc"
    [] value = "0xEE" -> "0xee"
    [] OTHER -> value

\* A check that takes every wallet for a participant.
isParticipantAnyone(room, wallet) == TRUE

isParticipant(room, wallet) ==
  LET target == normalizeAddress(wallet)
  IN  \/ normalizeAddress(room.participant_a) = target
      \/ normalizeAddress(room.participant_b) = target

\* A weight that takes the keys of the map and the room's addresses as spelled.
calculateSignedWeightAsSpelled(room, signatures) ==
  (IF room.participant_a \in DOMAIN signatures THEN 50 ELSE 0)
  + (IF room.participant_b \in DOMAIN signatures THEN 50 ELSE 0)

calculateSignedWeight(room, signatures) ==
  LET signerAddresses == {normalizeAddress(k) : k \in DOMAIN signatures}
  IN  (IF normalizeAddress(room.participant_a) \in signerAddresses THEN 50 ELSE 0)
      + (IF normalizeAddress(room.participant_b) \in signerAddresses THEN 50 ELSE 0)

stripWalletQuorumPrefix(signature) ==
  IF signature.prefix THEN [signature EXCEPT !.prefix = FALSE] ELSE signature

\* viem's recovery over the raw 32-byte hash: the signing key's address when the
\* blob is a plain signature over that hash, an unrelated address otherwise.
recoverMessageAddress(hash, rawSignature) ==
  IF ~rawSignature.prefix /\ rawSignature.hash = hash
  THEN rawSignature.signer
  ELSE "0xEE"

\* A check that accepts every signature.
assertWalletSignedHashAccepting(wallet, hash, quorumSignature) == TRUE

\* TRUE when assertWalletSignedHash returns, FALSE when it throws.
assertWalletSignedHash(wallet, hash, quorumSignature) ==
  LET rawSignature == stripWalletQuorumPrefix(quorumSignature)
      recovered == recoverMessageAddress(hash, rawSignature)
  IN  normalizeAddress(recovered) = normalizeAddress(wallet)

ttlDate == now + DEFAULT_ROOM_TTL_HOURS

----------------------------------------------------------------------------
(* The store *)

NoSignatures == [k \in {} |-> [prefix |-> FALSE, signer |-> "", hash |-> ""]]

NullResult == [tag |-> "null", value |-> <<>>]

\* A select that never finds an active proposal.
HasActiveNever(ps, roomId, kind) == FALSE

HasActive(ps, roomId, kind) ==
  \E i \in DOMAIN ps :
    ps[i].room_id = roomId /\ ps[i].kind = kind /\ ps[i].status \in ACTIVE_STATUSES

\* The table without the index: every write is accepted.
proposals_without_index(ps) == TRUE

\* The partial unique index on (room_id, kind) where status in (pending, ready):
\* the database accepts an insert or update only if the table then satisfies it.
proposals_active_kind_unique(ps) ==
  \A i, j \in DOMAIN ps :
    (i # j /\ ps[i].room_id = ps[j].room_id /\ ps[i].kind = ps[j].kind)
      => ~(ps[i].status \in ACTIVE_STATUSES /\ ps[j].status \in ACTIVE_STATUSES)

Event(roomId, proposalId, actor, type) ==
  [room_id |-> roomId, proposal_id |-> proposalId, actor |-> actor, event_type |-> type]

AppendEvent(ev) == events (+) SetToBag({ev})

Response(route, code, error) == [route |-> route, status |-> code, error |-> error]

NoResponse == Response("none", 0, "")

InFlight == BagCardinality(createReqs) + BagCardinality(signReqs) + BagCardinality(submitReqs)

\* A handler is admitted past its selects only while the model can still hold
\* the rows it may write.
Admit == /\ InFlight < MaxInFlight
         /\ BagCardinality(events) + InFlight < MaxEvents

----------------------------------------------------------------------------

\* No trigger of a snapshot sync has arrived yet.
NoTrigger == [trigger |-> "none", outcome |-> "none"]

\* The page before a room is opened.
ClosedPage ==
  [pc |-> "closed", activeRoom |-> PageRoom, activeSession |-> NoSession,
   proposals |-> <<>>, walletAddress |-> "", allocations |-> <<>>,
   depositor |-> "null", canSubmit |-> FALSE, nextVersion |-> 0, rows |-> <<>>,
   error |-> <<>>, proposalAmount |-> "1.25",
   client |-> FALSE, activeRoomId |-> "", syncInFlightRef |-> FALSE,
   syncs |-> <<>>, triggers |-> 0, lastTrigger |-> NoTrigger, lastSync |-> "none"]

\* A page that fetched its room's thread and sessions and has not rendered yet.
FetchedPage(activeSession, fetched, walletAddress) ==
  [ClosedPage EXCEPT !.pc = "fetched", !.activeSession = activeSession,
                     !.proposals = fetched, !.walletAddress = walletAddress]

IdleClient ==
  [pc |-> "idle", id |-> 0, sdkResult |-> "absent", appSessionId |-> "absent",
   error |-> <<>>, extOk |-> FALSE, transientFor |-> 0]

\* The server at its start: empty tables, no handler running.
ServerInit ==
  /\ rooms = [r \in {} |-> 0]
  /\ proposals = <<>>
  /\ events = EmptyBag
  /\ now = 0
  /\ createReqs = EmptyBag
  /\ signReqs = EmptyBag
  /\ submitReqs = EmptyBag
  /\ response = NoResponse
  /\ clients = [c \in ClientWallets |-> IdleClient]

Init ==
  /\ ServerInit
  /\ page = ClosedPage

\* Time passes: one step takes the clock past the expiry of every row written so far.
Tick ==
  /\ now < MaxNow
  /\ now' = now + DEFAULT_ROOM_TTL_HOURS + 1
  /\ response' = NoResponse
  /\ UNCHANGED <<rooms, proposals, events, createReqs, signReqs, submitReqs, clients, page>>

----------------------------------------------------------------------------
(* POST /api/rooms *)

CreateRoom ==
  \E id \in RoomIds, createdByIn \in RoomCreators, participantBIn \in RoomCounterparties :
    LET createdBy == normalizeAddress(createdByIn)
        participantB == normalizeAddress(participantBIn)
        room == [participant_a |-> createdBy, participant_b |-> participantB,
                 status |-> "open", app_session_id |-> "null"]
    IN  /\ id \notin DOMAIN rooms
        /\ IF createdBy = participantB
           THEN /\ response' = Response("rooms", 400, "SameParticipant")
                /\ UNCHANGED <<rooms, events>>
           ELSE /\ rooms' = [r \in DOMAIN rooms \cup {id} |->
                               IF r = id THEN room ELSE rooms[r]]
                /\ events' = AppendEvent(Event(id, 0, createdBy, "room_created"))
                /\ response' = Response("rooms", 201, "")
        /\ UNCHANGED <<proposals, now, createReqs, signReqs, submitReqs, clients, page>>

----------------------------------------------------------------------------
(* POST /api/proposals *)

\* Body validation, the room select and the active-proposal select.
CreateRead(kinds, quorums, cap) ==
  \E roomId \in RoomIds, actorIn \in Wallets, kind \in kinds,
     requiredQuorum \in quorums, payloadHash \in HashInputs,
     payloadJson \in PayloadInputs :
    /\ UNCHANGED <<rooms, proposals, events, now, signReqs, submitReqs, clients, page>>
    /\ IF requiredQuorum <= 0
       THEN /\ response' = Response("create", 400, "BadQuorum")
            /\ UNCHANGED createReqs
       ELSE IF roomId \notin DOMAIN rooms
       THEN /\ response' = Response("create", 404, "RoomNotFound")
            /\ UNCHANGED createReqs
       ELSE IF ~isParticipant(rooms[roomId], normalizeAddress(actorIn))
       THEN /\ response' = Response("create", 403, "NotParticipant")
            /\ UNCHANGED createReqs
       ELSE IF HasActive(proposals, roomId, kind)
       THEN /\ response' = Response("create", 400, "DuplicateActiveProposal")
            /\ UNCHANGED createReqs
       ELSE /\ Admit
            /\ Len(proposals) + BagCardinality(createReqs) < cap
            /\ createReqs' = createReqs (+) SetToBag({
                 [room_id |-> roomId, actor |-> normalizeAddress(actorIn),
                  kind |-> kind, payload_json |-> payloadJson,
                  payload_hash |-> payloadHash, required_quorum |-> requiredQuorum,
                  expires_at |-> ttlDate]})
            /\ response' = NoResponse

\* The proposal insert, checked by the unique index, and the event insert.
CreateInsert ==
  \E req \in BagToSet(createReqs) :
    LET proposal == [room_id |-> req.room_id, kind |-> req.kind,
                     payload_json |-> req.payload_json,
                     payload_hash |-> req.payload_hash,
                     required_quorum |-> req.required_quorum,
                     signatures_json |-> NoSignatures,
                     status |-> "pending",
                     sdk_result_json |-> NullResult,
                     expires_at |-> req.expires_at]
        inserted == Append(proposals, proposal)
    IN  /\ createReqs' = createReqs (-) SetToBag({req})
        /\ IF proposals_active_kind_unique(inserted)
           THEN /\ proposals' = inserted
                /\ events' = AppendEvent(
                     Event(req.room_id, Len(inserted), req.actor, "proposal_created"))
                /\ response' = Response("create", 201, "")
           ELSE /\ response' = Response("create", 500, "UniqueViolation")
                /\ UNCHANGED <<proposals, events>>
        /\ UNCHANGED <<rooms, now, signReqs, submitReqs, clients, page>>

----------------------------------------------------------------------------
(* POST /api/proposals/[id]/sign *)

\* The handler storing whatever signature the request carries.
WithSignatureOverwritten(signaturesJson, wallet, signature) ==
  [k \in DOMAIN signaturesJson \cup {wallet} |->
     IF k = wallet THEN signature ELSE signaturesJson[k]]

\* const signatures = { ...proposal.signatures_json };
\* if (!signatures[wallet]) signatures[wallet] = body.signature;
WithSignature(signaturesJson, wallet, signature) ==
  IF wallet \in DOMAIN signaturesJson
  THEN signaturesJson
  ELSE [k \in DOMAIN signaturesJson \cup {wallet} |->
          IF k = wallet THEN signature ELSE signaturesJson[k]]

\* Body validation, the proposal select, the status and expiry checks, the room
\* select, the participant check, signature verification and the computation
\* of the row to write.
SignRead(signatureInputs) ==
  \E id \in DOMAIN proposals, walletIn \in Wallets, signature \in signatureInputs :
    LET proposal == proposals[id]
        room == rooms[proposal.room_id]
        wallet == normalizeAddress(walletIn)
        signatures == WithSignature(proposal.signatures_json, wallet, signature)
        signedWeight == calculateSignedWeight(room, signatures)
        status == IF signedWeight >= proposal.required_quorum THEN "ready" ELSE "pending"
    IN  /\ UNCHANGED <<rooms, proposals, events, now, createReqs, submitReqs, clients, page>>
        /\ IF proposal.status \in TerminalStatuses
           THEN /\ response' = Response("sign", 400, "InvalidState")
                /\ UNCHANGED signReqs
           ELSE IF proposal.expires_at < now
           THEN /\ InFlight < MaxInFlight
                /\ signReqs' = signReqs (+) SetToBag({
                     [id |-> id, op |-> "expire", wallet |-> wallet,
                      signatures |-> NoSignatures, signedWeight |-> 0,
                      status |-> "expired"]})
                /\ response' = NoResponse
           ELSE IF ~isParticipant(room, wallet)
           THEN /\ response' = Response("sign", 403, "NotParticipant")
                /\ UNCHANGED signReqs
           ELSE IF ~assertWalletSignedHash(wallet, proposal.payload_hash, signature)
           THEN /\ response' = Response("sign", 500, "SignatureMismatch")
                /\ UNCHANGED signReqs
           ELSE /\ Admit
                /\ signReqs' = signReqs (+) SetToBag({
                     [id |-> id, op |-> "update", wallet |-> wallet,
                      signatures |-> signatures, signedWeight |-> signedWeight,
                      status |-> status]})
                /\ response' = NoResponse

\* The expiry branch answering without its update.
SignExpireWithoutUpdate ==
  \E req \in BagToSet(signReqs) :
    /\ req.op = "expire"
    /\ signReqs' = signReqs (-) SetToBag({req})
    /\ response' = Response("sign", 400, "Expired")
    /\ UNCHANGED <<rooms, proposals, events, now, createReqs, submitReqs, clients, page>>

\* update({ status: 'expired' }).eq('id', ...) of a handler that found the
\* proposal past its expiry.
SignExpire ==
  \E req \in BagToSet(signReqs) :
    /\ req.op = "expire"
    /\ signReqs' = signReqs (-) SetToBag({req})
    /\ proposals' = [proposals EXCEPT ![req.id].status = "expired"]
    /\ response' = Response("sign", 400, "Expired")
    /\ UNCHANGED <<rooms, events, now, createReqs, submitReqs, clients, page>>

\* The update storing the merged signatures while leaving the status as it is.
SignUpdateKeepingStatus ==
  \E req \in BagToSet(signReqs) :
    LET updated == [proposals EXCEPT ![req.id].signatures_json = req.signatures]
    IN  /\ req.op = "update"
        /\ signReqs' = signReqs (-) SetToBag({req})
        /\ proposals' = updated
        /\ events' = AppendEvent(
             Event(proposals[req.id].room_id, req.id, req.wallet, "proposal_signed"))
        /\ response' = Response("sign", 200, "")
        /\ UNCHANGED <<rooms, now, createReqs, submitReqs, clients, page>>

\* update({ signatures_json, status }).eq('id', ...) and the event insert.
SignUpdate ==
  \E req \in BagToSet(signReqs) :
    LET updated == [proposals EXCEPT ![req.id].signatures_json = req.signatures,
                                     ![req.id].status = req.status]
    IN  /\ req.op = "update"
        /\ signReqs' = signReqs (-) SetToBag({req})
        /\ IF proposals_active_kind_unique(updated)
           THEN /\ proposals' = updated
                /\ events' = AppendEvent(
                     Event(proposals[req.id].room_id, req.id, req.wallet, "proposal_signed"))
                /\ response' = Response("sign", 200, "")
           ELSE /\ response' = Response("sign", 500, "UniqueViolation")
                /\ UNCHANGED <<proposals, events>>
        /\ UNCHANGED <<rooms, now, createReqs, submitReqs, clients, page>>

----------------------------------------------------------------------------
(* POST /api/proposals/[id]/submit *)

\* const sdkResult = body.sdkResult ?? (body.error ? { error: body.error } : {})
SdkResultOf(body) ==
  IF body.sdkResult # "absent" THEN [tag |-> "result", value |-> <<body.sdkResult>>]
  ELSE IF body.error # <<>> THEN [tag |-> "error", value |-> body.error]
  ELSE [tag |-> "empty", value |-> <<>>]

\* Body validation, the proposal select, the expiry check, the room select, the
\* participant check and the ready check of outcome=submitted: what the
\* handler decides on the rows it read.  origin is "api" for a bare request
\* and the client's wallet for a request sent by submitProposal.
SubmitSelects(id, walletIn, body, origin) ==
  LET proposal == proposals[id]
      room == rooms[proposal.room_id]
      wallet == normalizeAddress(walletIn)
      outcome == IF body.outcome = "absent" THEN "submitted" ELSE body.outcome
      nextStatus == IF outcome = "submitted" THEN "submitted" ELSE "failed"
      req == [id |-> id, op |-> "update", wallet |-> wallet, origin |-> origin,
              outcome |-> outcome, nextStatus |-> nextStatus,
              sdkResult |-> SdkResultOf(body), appSessionId |-> body.appSessionId]
  IN  IF proposal.expires_at < now
      THEN [verdict |-> "expire", response |-> NoResponse,
            req |-> [req EXCEPT !.op = "expire", !.nextStatus = "expired",
                                !.sdkResult = NullResult, !.appSessionId = "absent"]]
      ELSE IF ~isParticipant(room, wallet)
      THEN [verdict |-> "reject", response |-> Response("submit", 403, "NotParticipant"),
            req |-> req]
      ELSE IF outcome = "submitted" /\ proposal.status # "ready"
      THEN [verdict |-> "reject", response |-> Response("submit", 400, "InvalidState"),
            req |-> req]
      ELSE [verdict |-> "update", response |-> NoResponse, req |-> req]

\* The model admits a handler past its selects only within its bounds.
SubmitAdmit(decision) ==
  IF decision.verdict = "expire" THEN InFlight < MaxInFlight ELSE Admit

\* A bare request to the route.
SubmitRead(bodies) ==
  \E id \in DOMAIN proposals, walletIn \in Wallets, body \in bodies :
    LET decision == SubmitSelects(id, walletIn, body, "api")
    IN  /\ UNCHANGED <<rooms, proposals, events, now, createReqs, signReqs, clients, page>>
        /\ IF decision.verdict = "reject"
           THEN /\ response' = decision.response
                /\ UNCHANGED submitReqs
           ELSE /\ SubmitAdmit(decision)
                /\ submitReqs' = submitReqs (+) SetToBag({decision.req})
                /\ response' = NoResponse

----------------------------------------------------------------------------
(* submitProposal, in the browser client *)

\* The text of an error as the client sees it, a sequence of words.
ErrorMessage(tag) ==
  CASE tag = "Expired" -> <<"Proposal", "expired">>
    [] tag = "InvalidState" -> <<"Proposal", "must", "be", "ready", "before", "submission">>
    [] tag = "NotParticipant" -> <<"Actor", "is", "not", "a", "room", "participant">>
    [] OTHER -> <<"Request", "failed">>

toLowerCase(message) ==
  [i \in DOMAIN message |->
     CASE message[i] = "Connection" -> "connection"
       [] message[i] = "Network" -> "network"
       [] message[i] = "WebSocket" -> "websocket"
       [] message[i] = "Proposal" -> "proposal"
       [] message[i] = "Actor" -> "actor"
       [] message[i] = "Request" -> "request"
       [] message[i] = "Failed" -> "failed"
       [] OTHER -> message[i]]

includes(message, phrase) ==
  \E i \in 1..(Len(message) - Len(phrase) + 1) :
    SubSeq(message, i, i + Len(phrase) - 1) = phrase

\* A classifier that knows the phrase 'not connected' only.
isRetryableNotConnectedOnly(error) ==
  includes(toLowerCase(error), <<"not", "connected">>)

isRetryableSubmitError(error) ==
  LET lower == toLowerCase(error)
  IN  \/ includes(lower, <<"not", "connected">>)
      \/ includes(lower, <<"connection", "closed">>)
      \/ includes(lower, <<"socket", "closed">>)
      \/ includes(lower, <<"network", "error">>)
      \/ includes(lower, <<"websocket">>)
      \/ includes(lower, <<"ws", "closed">>)

isMissingHomeChannelForDeposit(error) ==
  LET lower == toLowerCase(error)
  IN  \/ includes(lower, <<"state.homechannelid", "is", "required", "for", "packing">>)
      \/ includes(lower, <<"no", "channel", "exists", "for", "asset">>)
      \/ includes(lower, <<"missing", "home", "channel", "id">>)
      \/ includes(lower, <<"missing_home_channel">>)

\* const activeProposal = proposals.find(status is pending or ready), over the
\* list fetched newest first.
activeProposal ==
  IF \E i \in DOMAIN proposals : proposals[i].status \in ACTIVE_STATUSES
  THEN CHOOSE i \in DOMAIN proposals :
         /\ proposals[i].status \in ACTIVE_STATUSES
         /\ \A j \in DOMAIN proposals :
              proposals[j].status \in ACTIVE_STATUSES => j <= i
  ELSE 0

\* What the client does with the response to a request it sent.
ClientOnResponse(client, resp) ==
  IF client.pc = "awaiting_submitted"
  THEN IF resp.status = 200
       THEN [client EXCEPT !.pc = "refresh"]
       ELSE [client EXCEPT !.pc = "caught", !.error = ErrorMessage(resp.error)]
  ELSE [IdleClient EXCEPT !.transientFor = client.transientFor]

Deliver(origin, resp) ==
  IF origin \in ClientWallets
  THEN [clients EXCEPT ![origin] = ClientOnResponse(clients[origin], resp)]
  ELSE clients

\* The user taps Apply on the ready active proposal of the room thread the
\* client has just fetched; submitProposal runs up to its call of the session
\* service.
ClientStart ==
  \E c \in ClientWallets :
    LET id == activeProposal
    IN  /\ clients[c].pc = "idle"
        /\ id # 0
        /\ proposals[id].status = "ready"
        /\ isParticipant(rooms[proposals[id].room_id], normalizeAddress(c))
        /\ DOMAIN proposals[id].signatures_json # {}
        /\ clients' = [clients EXCEPT ![c] =
             [IdleClient EXCEPT !.pc = "external", !.id = id,
                                !.transientFor = clients[c].transientFor]]
        /\ response' = NoResponse
        /\ UNCHANGED <<rooms, proposals, events, now, createReqs, signReqs, submitReqs, page>>

\* createAppSession / submitAppState / closeAppSession returns a result.
ClientExternalOk ==
  \E c \in ClientWallets :
    /\ clients[c].pc = "external"
    /\ clients' = [clients EXCEPT ![c] =
         [@ EXCEPT !.pc = "posting", !.extOk = TRUE, !.sdkResult = "res1",
                   !.appSessionId =
                      IF proposals[clients[c].id].kind = "create_session"
                      THEN "s1" ELSE "absent"]]
    /\ response' = NoResponse
    /\ UNCHANGED <<rooms, proposals, events, now, createReqs, signReqs, submitReqs, page>>

\* The session service call throws.
ClientExternalFails ==
  \E c \in ClientWallets, message \in ExternalErrors :
    /\ clients[c].pc = "external"
    /\ clients' = [clients EXCEPT ![c] = [@ EXCEPT !.pc = "caught", !.error = message]]
    /\ response' = NoResponse
    /\ UNCHANGED <<rooms, proposals, events, now, createReqs, signReqs, submitReqs, page>>

\* postJson(.../submit, { wallet, outcome: 'submitted', sdkResult, appSessionId }):
\* the handler's selects; a rejection is thrown as an Error.
ClientPostSubmitted ==
  \E c \in ClientWallets :
    LET client == clients[c]
        body == [outcome |-> "submitted", sdkResult |-> client.sdkResult,
                 appSessionId |-> client.appSessionId, error |-> <<>>]
        decision == SubmitSelects(client.id, c, body, c)
    IN  /\ client.pc = "posting"
        /\ response' = decision.response
        /\ IF decision.verdict = "reject"
           THEN /\ clients' = [clients EXCEPT ![c] =
                     [@ EXCEPT !.pc = "caught",
                               !.error = ErrorMessage(decision.response.error)]]
                /\ UNCHANGED submitReqs
           ELSE /\ SubmitAdmit(decision)
                /\ submitReqs' = submitReqs (+) SetToBag({decision.req})
                /\ clients' = [clients EXCEPT ![c] = [@ EXCEPT !.pc = "awaiting_submitted"]]
        /\ UNCHANGED <<rooms, proposals, events, now, createReqs, signReqs, page>>

\* Promise.all([refreshCoreData(), fetchRooms(), fetchRoomThread()]) resolves.
ClientRefreshOk ==
  \E c \in ClientWallets :
    /\ clients[c].pc = "refresh"
    /\ clients' = [clients EXCEPT ![c] =
         [IdleClient EXCEPT !.transientFor = clients[c].transientFor]]
    /\ response' = NoResponse
    /\ UNCHANGED <<rooms, proposals, events, now, createReqs, signReqs, submitReqs, page>>

\* fetchRooms or fetchRoomThread throws, inside the same try block.
ClientRefreshFails ==
  \E c \in ClientWallets, message \in RefreshErrors :
    /\ clients[c].pc = "refresh"
    /\ clients' = [clients EXCEPT ![c] = [@ EXCEPT !.pc = "caught", !.error = message]]
    /\ response' = NoResponse
    /\ UNCHANGED <<rooms, proposals, events, now, createReqs, signReqs, submitReqs, page>>

\* The catch block when the error is classified recoverable: nothing is
\* reported, submitProposal ends.
ClientCatchRecoverable ==
  \E c \in ClientWallets :
    LET client == clients[c]
        transient == isRetryableSubmitError(client.error)
        missingHomeChannel == isMissingHomeChannelForDeposit(client.error)
    IN  /\ client.pc = "caught"
        /\ transient \/ missingHomeChannel
        /\ clients' = [clients EXCEPT ![c] =
             [IdleClient EXCEPT !.transientFor =
                IF transient /\ ~client.extOk THEN client.id ELSE client.transientFor]]
        /\ response' = NoResponse
        /\ UNCHANGED <<rooms, proposals, events, now, createReqs, signReqs, submitReqs, page>>

\* The catch block otherwise: postJson(.../submit, { wallet, outcome: 'failed',
\* error }), whose own failure is ignored.
ClientReportFailed ==
  \E c \in ClientWallets :
    LET client == clients[c]
        body == [outcome |-> "failed", sdkResult |-> "absent",
                 appSessionId |-> "absent", error |-> client.error]
        decision == SubmitSelects(client.id, c, body, c)
    IN  /\ client.pc = "caught"
        /\ ~(isRetryableSubmitError(client.error)
             \/ isMissingHomeChannelForDeposit(client.error))
        /\ response' = decision.response
        /\ IF decision.verdict = "reject"
           THEN /\ clients' = [clients EXCEPT ![c] =
                     [IdleClient EXCEPT !.transientFor = client.transientFor]]
                /\ UNCHANGED submitReqs
           ELSE /\ SubmitAdmit(decision)
                /\ submitReqs' = submitReqs (+) SetToBag({decision.req})
                /\ clients' = [clients EXCEPT ![c] = [@ EXCEPT !.pc = "awaiting_failed"]]
        /\ UNCHANGED <<rooms, proposals, events, now, createReqs, signReqs, page>>

----------------------------------------------------------------------------
(* POST /api/proposals/[id]/submit, continued: the writes *)

\* update({ status: 'expired' }).eq('id', ...) of a handler that found the
\* proposal past its expiry.
SubmitExpire ==
  \E req \in BagToSet(submitReqs) :
    /\ req.op = "expire"
    /\ submitReqs' = submitReqs (-) SetToBag({req})
    /\ proposals' = [proposals EXCEPT ![req.id].status = "expired"]
    /\ response' = Response("submit", 400, "Expired")
    /\ clients' = Deliver(req.origin, Response("submit", 400, "Expired"))
    /\ UNCHANGED <<rooms, events, now, createReqs, signReqs, page>>

\* The update closing the room on every result of a close_session proposal.
SubmitUpdateClosingOnFailed ==
  \E req \in BagToSet(submitReqs) :
    LET proposal == proposals[req.id]
        roomId == proposal.room_id
    IN  /\ req.op = "update"
        /\ submitReqs' = submitReqs (-) SetToBag({req})
        /\ proposals' = [proposals EXCEPT ![req.id].status = req.nextStatus,
                                          ![req.id].sdk_result_json = req.sdkResult]
        /\ rooms' = IF proposal.kind = "close_session"
                    THEN [rooms EXCEPT ![roomId].status = "closed"]
                    ELSE rooms
        /\ events' = AppendEvent(
             Event(roomId, req.id, req.wallet,
                   IF req.outcome = "submitted" THEN "proposal_submitted"
                   ELSE "proposal_failed"))
        /\ response' = Response("submit", 200, "")
        /\ clients' = Deliver(req.origin, Response("submit", 200, ""))
        /\ UNCHANGED <<now, createReqs, signReqs, page>>

\* update({ status, sdk_result_json }).eq('id', ...), the room updates of a
\* submitted create_session / close_session proposal, and the event insert.
SubmitUpdate ==
  \E req \in BagToSet(submitReqs) :
    LET proposal == proposals[req.id]
        roomId == proposal.room_id
        attached == IF /\ req.outcome = "submitted"
                       /\ proposal.kind = "create_session"
                       /\ req.appSessionId # "absent"
                    THEN [rooms EXCEPT ![roomId].app_session_id = req.appSessionId]
                    ELSE rooms
        closed == IF req.outcome = "submitted" /\ proposal.kind = "close_session"
                  THEN [attached EXCEPT ![roomId].status = "closed"]
                  ELSE attached
    IN  /\ req.op = "update"
        /\ submitReqs' = submitReqs (-) SetToBag({req})
        /\ proposals' = [proposals EXCEPT ![req.id].status = req.nextStatus,
                                          ![req.id].sdk_result_json = req.sdkResult]
        /\ rooms' = closed
        /\ events' = AppendEvent(
             Event(roomId, req.id, req.wallet,
                   IF req.outcome = "submitted" THEN "proposal_submitted"
                   ELSE "proposal_failed"))
        /\ response' = Response("submit", 200, "")
        /\ clients' = Deliver(req.origin, Response("submit", 200, ""))
        /\ UNCHANGED <<now, createReqs, signReqs, page>>

----------------------------------------------------------------------------
(* POST /api/proposals/expire *)

\* A sweep that expires every pending or ready row, whatever its expiry.
ExpireSweepIgnoringExpiry ==
  /\ proposals' = [i \in DOMAIN proposals |->
                     IF proposals[i].status \in {"pending", "ready"}
                     THEN [proposals[i] EXCEPT !.status = "expired"]
                     ELSE proposals[i]]
  /\ response' = Response("expire", 200, "")
  /\ UNCHANGED <<rooms, events, now, createReqs, signReqs, submitReqs, clients, page>>

\* A sweep that also clears the payload hash of the rows it expires.
ExpireSweepClearingHash ==
  /\ proposals' = [i \in DOMAIN proposals |->
                     IF /\ proposals[i].status \in {"pending", "ready"}
                        /\ proposals[i].expires_at < now
                     THEN [proposals[i] EXCEPT !.status = "expired", !.payload_hash = ""]
                     ELSE proposals[i]]
  /\ response' = Response("expire", 200, "")
  /\ UNCHANGED <<rooms, events, now, createReqs, signReqs, submitReqs, clients, page>>

\* A sweep that expires pending proposals only.
ExpireSweepPendingOnly ==
  /\ proposals' = [i \in DOMAIN proposals |->
                     IF /\ proposals[i].status = "pending"
                        /\ proposals[i].expires_at < now
                     THEN [proposals[i] EXCEPT !.status = "expired"]
                     ELSE proposals[i]]
  /\ response' = Response("expire", 200, "")
  /\ UNCHANGED <<rooms, events, now, createReqs, signReqs, submitReqs, clients, page>>

\* update({ status: 'expired' }).in('status', ['pending', 'ready'])
\*   .lt('expires_at', now): one statement, atomic in the database.
ExpireSweep ==
  /\ proposals' = [i \in DOMAIN proposals |->
                     IF /\ proposals[i].status \in {"pending", "ready"}
                        /\ proposals[i].expires_at < now
                     THEN [proposals[i] EXCEPT !.status = "expired"]
                     ELSE proposals[i]]
  /\ response' = Response("expire", 200, "")
  /\ UNCHANGED <<rooms, events, now, createReqs, signReqs, submitReqs, clients, page>>

----------------------------------------------------------------------------
(* The room page of the browser client: what it derives from the thread *)

assetToLowerCase(asset) ==
  CASE asset = "USDC" -> "usdc"
    [] asset = "WETH" -> "weth"
    [] OTHER -> asset

\* Number(text) of a version string; finite = FALSE is NaN.
Number(text) ==
  CASE text = "2" -> [finite |-> TRUE, value |-> 2]
    [] text = "5" -> [finite |-> TRUE, value |-> 5]
    [] OTHER -> [finite |-> FALSE, value |-> 0]

\* proposals.find(...) over the fetched list: the index of the first row that
\* satisfies the test, 0 when there is none.
FirstIndex(matching) ==
  IF matching = {} THEN 0 ELSE CHOOSE i \in matching : \A j \in matching : i <= j

activeProposalOf(fetched) ==
  FirstIndex({i \in DOMAIN fetched : fetched[i].status \in {"pending", "ready"}})

activeProposalLabel(fetched) ==
  LET active == activeProposalOf(fetched)
  IN  IF active = 0 THEN "-"
      ELSE IF fetched[active].kind # "operate" THEN fetched[active].kind
      ELSE IF fetched[active].payload_json.intent = "deposit" THEN "session_deposit"
      ELSE IF fetched[active].payload_json.intent = "operate" THEN "checkout"
      ELSE IF fetched[active].payload_json.intent = "withdraw" THEN "withdraw"
      ELSE "operate"

\* The loop that overlays an allocation list on the participants' amounts:
\* entries of another asset and of wallets outside the map are skipped, a later
\* entry replaces an earlier one.
RECURSIVE setAmounts(_, _, _)
setAmounts(byParticipant, allocations, asset_symbol) ==
  IF allocations = <<>> THEN byParticipant
  ELSE LET allocation == Head(allocations)
           participant == normalizeAddress(allocation.participant)
           next == IF assetToLowerCase(allocation.asset) # assetToLowerCase(asset_symbol)
                   THEN byParticipant
                   ELSE IF participant \notin DOMAIN byParticipant
                   THEN byParticipant
                   ELSE [byParticipant EXCEPT ![participant] = allocation.amount]
       IN  setAmounts(next, Tail(allocations), asset_symbol)

getRoomSessionAllocations(activeRoom, activeSession, fetched) ==
  LET participantA == normalizeAddress(activeRoom.participant_a)
      participantB == normalizeAddress(activeRoom.participant_b)
      submitted == FirstIndex({i \in DOMAIN fetched : fetched[i].status = "submitted"})
      sourceAllocations ==
        IF activeSession.present /\ Len(activeSession.allocations) > 0
        THEN activeSession.allocations
        ELSE IF submitted # 0 THEN fetched[submitted].payload_json.allocations
        ELSE <<>>
      byParticipant ==
        setAmounts([p \in {participantA, participantB} |-> 0], sourceAllocations,
                   activeRoom.asset_symbol)
  IN  << [participant |-> activeRoom.participant_a, asset |-> activeRoom.asset_symbol,
          amount |-> byParticipant[participantA]],
         [participant |-> activeRoom.participant_b, asset |-> activeRoom.asset_symbol,
          amount |-> byParticipant[participantB]] >>

\* baseByParticipant.get(key) ?? 0n, the key being the normalized participant
\* and the lower-case asset of the entry.
currentAmount(baseAllocations, allocation) ==
  LET same == {i \in DOMAIN baseAllocations :
                 /\ normalizeAddress(baseAllocations[i].participant)
                      = normalizeAddress(allocation.participant)
                 /\ assetToLowerCase(baseAllocations[i].asset)
                      = assetToLowerCase(allocation.asset)}
  IN  IF same = {} THEN 0
      ELSE baseAllocations[CHOOSE i \in same : \A j \in same : j <= i].amount

\* The first participant the payload lists, whether its amount rises or not.
activeDepositSubmitterFirstListed(fetched, baseAllocations) ==
  LET active == activeProposalOf(fetched)
  IN  IF active = 0 THEN "null"
      ELSE IF fetched[active].payload_json.allocations = <<>> THEN "null"
      ELSE normalizeAddress(fetched[active].payload_json.allocations[1].participant)

activeDepositSubmitter(fetched, baseAllocations) ==
  LET active == activeProposalOf(fetched)
  IN  IF active = 0 THEN "null"
      ELSE IF fetched[active].kind # "operate" THEN "null"
      ELSE IF fetched[active].payload_json.intent # "deposit" THEN "null"
      ELSE LET allocations == fetched[active].payload_json.allocations
               rising == FirstIndex({i \in DOMAIN allocations :
                           allocations[i].amount > currentAmount(baseAllocations, allocations[i])})
           IN  IF rising = 0 THEN "null"
               ELSE normalizeAddress(allocations[rising].participant)

canSubmitActiveProposal(fetched, walletAddress, depositor) ==
  LET active == activeProposalOf(fetched)
  IN  IF active = 0 THEN FALSE
      ELSE IF fetched[active].status # "ready" THEN FALSE
      ELSE IF activeProposalLabel(fetched) # "session_deposit" THEN TRUE
      ELSE IF depositor = "null" THEN FALSE
      ELSE normalizeAddress(walletAddress) = depositor

\* positiveParticipants of submitProposal's deposit branch.
positiveParticipants(allocations, baseAllocations) ==
  { normalizeAddress(allocations[i].participant) :
      i \in {j \in DOMAIN allocations :
               allocations[j].amount > currentAmount(baseAllocations, allocations[j])} }

\* The loop of nextSessionVersion over the fetched thread.
RECURSIVE maxSubmittedVersion(_, _)
maxSubmittedVersion(maxVersion, fetched) ==
  IF fetched = <<>> THEN maxVersion
  ELSE LET proposal == Head(fetched)
           sdkVersion == proposal.sdk_result_json.version
           created == IF sdkVersion.type = "undefined" THEN [finite |-> TRUE, value |-> 1]
                      ELSE IF sdkVersion.type = "string" THEN Number(sdkVersion.text)
                      ELSE [finite |-> TRUE, value |-> sdkVersion.number]
           payloadVersion == proposal.payload_json.version
           v == IF payloadVersion.type = "string" THEN Number(payloadVersion.text)
                ELSE [finite |-> payloadVersion.type = "number",
                      value |-> payloadVersion.number]
           larger(n) == IF n > maxVersion THEN n ELSE maxVersion
           next == IF proposal.status # "submitted" THEN maxVersion
                   ELSE IF proposal.kind = "create_session"
                   THEN (IF created.finite THEN larger(created.value) ELSE maxVersion)
                   ELSE (IF v.finite THEN larger(v.value) ELSE maxVersion)
       IN  maxSubmittedVersion(next, Tail(fetched))

nextSessionVersion(activeSession, fetched) ==
  LET known == IF activeSession.present /\ activeSession.version # <<>>
               THEN activeSession.version[1] ELSE 0
      maxVersion == maxSubmittedVersion(known, fetched)
  IN  IF maxVersion > 0 THEN maxVersion + 1 ELSE 2

\* A preview whose after column starts from zero.
submitConfirmPreviewFromZero(activeRoom, baseAllocations, proposal) ==
  LET a == normalizeAddress(activeRoom.participant_a)
      b == normalizeAddress(activeRoom.participant_b)
      \* every base entry is a participant's
      beforeByParticipant ==
        setAmounts([p \in {a, b} |-> 0], baseAllocations, activeRoom.asset_symbol)
      afterByParticipant ==
        setAmounts([p \in {a, b} |-> 0], proposal.payload_json.allocations,
                   activeRoom.asset_symbol)
  IN  [i \in 1..2 |->
         LET participant == IF i = 1 THEN activeRoom.participant_a
                            ELSE activeRoom.participant_b
             key == normalizeAddress(participant)
         IN  [participant |-> participant,
              before |-> beforeByParticipant[key],
              after |-> afterByParticipant[key],
              delta |-> afterByParticipant[key] - beforeByParticipant[key]]]

submitConfirmPreview(activeRoom, baseAllocations, proposal) ==
  LET a == normalizeAddress(activeRoom.participant_a)
      b == normalizeAddress(activeRoom.participant_b)
      \* every base entry is a participant's
      beforeByParticipant ==
        setAmounts([p \in {a, b} |-> 0], baseAllocations, activeRoom.asset_symbol)
      nextAllocations ==
        IF Len(proposal.payload_json.allocations) > 0
        THEN proposal.payload_json.allocations
        ELSE baseAllocations
      afterByParticipant ==
        setAmounts(beforeByParticipant, nextAllocations, activeRoom.asset_symbol)
  IN  [i \in 1..2 |->
         LET participant == IF i = 1 THEN activeRoom.participant_a
                            ELSE activeRoom.participant_b
             key == normalizeAddress(participant)
         IN  [participant |-> participant,
              before |-> beforeByParticipant[key],
              after |-> afterByParticipant[key],
              delta |-> afterByParticipant[key] - beforeByParticipant[key]]]

\* A render: every memoized value is recomputed from the state it depends on.
Rendered(p) ==
  LET baseAllocations == getRoomSessionAllocations(p.activeRoom, p.activeSession, p.proposals)
      depositor == activeDepositSubmitter(p.proposals, baseAllocations)
  IN  [p EXCEPT !.allocations = baseAllocations,
                !.depositor = depositor,
                !.canSubmit = canSubmitActiveProposal(p.proposals, p.walletAddress, depositor),
                !.nextVersion = nextSessionVersion(p.activeSession, p.proposals)]

\* The first render after fetchRoomThread and refreshCoreData returned.
PageRender ==
  /\ page.pc = "fetched"
  /\ page' = [Rendered(page) EXCEPT !.pc = "rendered"]
  /\ response' = NoResponse
  /\ UNCHANGED <<rooms, proposals, events, now, createReqs, signReqs, submitReqs, clients>>

\* refreshCoreData: the session service reports the sessions anew and the page
\* renders again; the thread is the one fetched before.
RefreshCoreData ==
  /\ page.pc = "rendered"
  /\ \E session \in SessionInputs :
       page' = [Rendered([page EXCEPT !.activeSession = session]) EXCEPT !.pc = "refreshed"]
  /\ response' = NoResponse
  /\ UNCHANGED <<rooms, proposals, events, now, createReqs, signReqs, submitReqs, clients>>

\* The participant taps Review & Apply, which is disabled unless
\* canSubmitActiveProposal: the confirmation opens with its preview.
OpenSubmitConfirm ==
  /\ page.pc \in {"rendered", "refreshed"}
  /\ page.canSubmit
  /\ page' = [page EXCEPT
       !.pc = "confirm",
       !.rows = submitConfirmPreview(page.activeRoom, page.allocations,
                                     page.proposals[activeProposalOf(page.proposals)])]
  /\ response' = NoResponse
  /\ UNCHANGED <<rooms, proposals, events, now, createReqs, signReqs, submitReqs, clients>>

\* confirmSubmitProposal -> submitProposal, up to the call of the session
\* service: a deposit with exactly one rising participant is refused to the
\* other wallet and sent through ensureWalletCanSubmitSessionDeposit first.
ConfirmSubmitProposal ==
  /\ page.pc = "confirm"
  /\ LET proposal == page.proposals[activeProposalOf(page.proposals)]
         positive == positiveParticipants(proposal.payload_json.allocations, page.allocations)
     IN  IF proposal.kind = "operate" /\ proposal.payload_json.intent = "deposit"
         THEN IF Cardinality(positive) = 1
                 /\ normalizeAddress(page.walletAddress) \notin positive
              THEN page' = [page EXCEPT
                     !.pc = "failed",
                     !.error = <<"Only", "the", "depositing", "participant", "should",
                                 "submit", "this", "deposit", "proposal.">>]
              ELSE IF Cardinality(positive) = 1
              THEN page' = [page EXCEPT !.pc = "ensuring"]
              ELSE page' = [page EXCEPT !.pc = "external"]
         ELSE page' = [page EXCEPT !.pc = "external"]
  /\ response' = NoResponse
  /\ UNCHANGED <<rooms, proposals, events, now, createReqs, signReqs, submitReqs, clients>>

\* ensureWalletCanSubmitSessionDeposit returns: submitAppState is called.
EnsureDepositOk ==
  /\ page.pc = "ensuring"
  /\ page' = [page EXCEPT !.pc = "external"]
  /\ response' = NoResponse
  /\ UNCHANGED <<rooms, proposals, events, now, createReqs, signReqs, submitReqs, clients>>

\* ensureWalletCanSubmitSessionDeposit throws: the wallet has no channel for
\* the asset; submitAppState is not called.
EnsureDepositFails ==
  /\ page.pc = "ensuring"
  /\ page' = [page EXCEPT !.pc = "failed", !.error = <<"This", "wallet", "cannot", "add", "funds", "to",
                                                  "checkout", "yet.">>]
  /\ response' = NoResponse
  /\ UNCHANGED <<rooms, proposals, events, now, createReqs, signReqs, submitReqs, clients>>

\* A create*Proposal of the page: the payload takes nextSessionVersion, the
\* server admits the proposal when the room has no active one of its kind, and
\* the thread fetched afterwards lists it first.
ProposeNext ==
  /\ page.pc = "rendered"
  /\ Len(page.proposals) < MaxThread
  /\ \E k \in {<<"operate", "operate">>, <<"operate", "deposit">>, <<"close_session", "">>} :
       /\ \A i \in DOMAIN page.proposals :
            page.proposals[i].status \in ACTIVE_STATUSES => page.proposals[i].kind # k[1]
       /\ page' = Rendered([page EXCEPT !.proposals =
                    <<FetchedProposal("pending", k[1], k[2], <<>>,
                                      NumberVersion(page.nextVersion), NoVersion)>> \o @])
  /\ response' = NoResponse
  /\ UNCHANGED <<rooms, proposals, events, now, createReqs, signReqs, submitReqs, clients>>

\* client.parseAmount for the room's asset of 6 decimals: the amount of the
\* form in minor units.
parseAmount(text) ==
  CASE text = "-1" -> -1000000
    [] text = "0" -> 0
    [] text = "1" -> 1000000
    [] text = "1.25" -> 1250000
    [] text = "6" -> 6000000
    [] OTHER -> 0

\* The participant a builder takes for the wallet: A when the wallet is A's,
\* B otherwise.
requesterOf(activeRoom, walletAddress) ==
  IF normalizeAddress(walletAddress) = normalizeAddress(activeRoom.participant_a)
  THEN activeRoom.participant_a
  ELSE activeRoom.participant_b

\* balanceByParticipant.get(normalizeAddress(participant)) ?? 0n
balanceOf(baseAllocations, participant) ==
  LET same == {i \in DOMAIN baseAllocations :
                 normalizeAddress(baseAllocations[i].participant)
                   = normalizeAddress(participant)}
  IN  IF same = {} THEN 0
      ELSE baseAllocations[CHOOSE i \in same : \A j \in same : j <= i].amount

\* createProposal: the server admits the proposal when the room has no active
\* one of its kind, and the thread fetched afterwards lists it first; a
\* rejection is shown as the page's message.
Proposed(kind, intent, allocations) ==
  IF \E i \in DOMAIN page.proposals :
       page.proposals[i].status \in ACTIVE_STATUSES /\ page.proposals[i].kind = kind
  THEN [page EXCEPT !.error = <<"An", "active", "proposal", "already", "exists", "in",
                               "this", "room">>]
  ELSE Rendered([page EXCEPT
         !.error = <<>>,
         !.proposals = <<FetchedProposal("pending", kind, intent, allocations,
                                         NumberVersion(page.nextVersion), NoVersion)>> \o @])

createDepositProposal ==
  /\ page.pc = "rendered"
  /\ Len(page.proposals) < MaxThread
  /\ LET rawAmount == parseAmount(page.proposalAmount)
         requester == requesterOf(page.activeRoom, page.walletAddress)
         allocations ==
           [i \in DOMAIN page.allocations |->
              IF normalizeAddress(page.allocations[i].participant)
                   # normalizeAddress(requester)
              THEN page.allocations[i]
              ELSE [page.allocations[i] EXCEPT !.amount = @ + rawAmount]]
     IN  IF rawAmount <= 0
         THEN page' = [page EXCEPT !.error = <<"Proposal", "amount", "must", "be",
                                              "greater", "than", "0">>]
         ELSE \/ page' = [page EXCEPT !.error = <<"This", "wallet", "cannot", "add",
                                                 "funds", "to", "checkout", "yet.">>]
              \/ page' = Proposed("operate", "deposit", allocations)
  /\ response' = NoResponse
  /\ UNCHANGED <<rooms, proposals, events, now, createReqs, signReqs, submitReqs, clients>>

\* A purchase builder without the balance check.
createOperateProposalWithoutBalanceCheck ==
  /\ page.pc = "rendered"
  /\ Len(page.proposals) < MaxThread
  /\ LET rawAmount == parseAmount(page.proposalAmount)
         requester == requesterOf(page.activeRoom, page.walletAddress)
         counterparty == IF requester = page.activeRoom.participant_a
                         THEN page.activeRoom.participant_b
                         ELSE page.activeRoom.participant_a
         allocations ==
           << [participant |-> requester, asset |-> page.activeRoom.asset_symbol,
               amount |-> balanceOf(page.allocations, requester) - rawAmount],
              [participant |-> counterparty, asset |-> page.activeRoom.asset_symbol,
               amount |-> balanceOf(page.allocations, counterparty) + rawAmount] >>
     IN  IF rawAmount <= 0
         THEN page' = [page EXCEPT !.error = <<"Proposal", "amount", "must", "be",
                                              "greater", "than", "0">>]
         ELSE page' = Proposed("operate", "operate", allocations)
  /\ response' = NoResponse
  /\ UNCHANGED <<rooms, proposals, events, now, createReqs, signReqs, submitReqs, clients>>

\* A purchase builder that credits the counterparty and leaves the requester's
\* amount as it is.
createOperateProposalCreditingOnly ==
  /\ page.pc = "rendered"
  /\ Len(page.proposals) < MaxThread
  /\ LET rawAmount == parseAmount(page.proposalAmount)
         requester == requesterOf(page.activeRoom, page.walletAddress)
         counterparty == IF requester = page.activeRoom.participant_a
                         THEN page.activeRoom.participant_b
                         ELSE page.activeRoom.participant_a
         allocations ==
           << [participant |-> requester, asset |-> page.activeRoom.asset_symbol,
               amount |-> balanceOf(page.allocations, requester)],
              [participant |-> counterparty, asset |-> page.activeRoom.asset_symbol,
               amount |-> balanceOf(page.allocations, counterparty) + rawAmount] >>
     IN  page' = Proposed("operate", "operate", allocations)
  /\ response' = NoResponse
  /\ UNCHANGED <<rooms, proposals, events, now, createReqs, signReqs, submitReqs, clients>>

createOperateProposal ==
  /\ page.pc = "rendered"
  /\ Len(page.proposals) < MaxThread
  /\ LET rawAmount == parseAmount(page.proposalAmount)
         requester == requesterOf(page.activeRoom, page.walletAddress)
         counterparty == IF requester = page.activeRoom.participant_a
                         THEN page.activeRoom.participant_b
                         ELSE page.activeRoom.participant_a
         requesterBalance == balanceOf(page.allocations, requester)
         counterpartyBalance == balanceOf(page.allocations, counterparty)
         allocations ==
           << [participant |-> requester, asset |-> page.activeRoom.asset_symbol,
               amount |-> requesterBalance - rawAmount],
              [participant |-> counterparty, asset |-> page.activeRoom.asset_symbol,
               amount |-> counterpartyBalance + rawAmount] >>
     IN  IF rawAmount <= 0
         THEN page' = [page EXCEPT !.error = <<"Proposal", "amount", "must", "be",
                                              "greater", "than", "0">>]
         ELSE IF requesterBalance < rawAmount
         THEN page' = [page EXCEPT !.error = <<"Insufficient", "app-session", "balance.">>]
         ELSE page' = Proposed("operate", "operate", allocations)
  /\ response' = NoResponse
  /\ UNCHANGED <<rooms, proposals, events, now, createReqs, signReqs, submitReqs, clients>>

createCloseProposal ==
  /\ page.pc = "rendered"
  /\ Len(page.proposals) < MaxThread
  /\ page' = Proposed("close_session", "", page.allocations)
  /\ response' = NoResponse
  /\ UNCHANGED <<rooms, proposals, events, now, createReqs, signReqs, submitReqs, clients>>

\* syncRealtimeSnapshot called without the in-flight check.
syncRealtimeSnapshotUnguarded(roomIdOverride, trigger) ==
  LET arrived == [page EXCEPT !.triggers = @ + 1]
  IN  IF page.walletAddress = "" \/ ~page.client
      THEN [arrived EXCEPT !.lastTrigger = [trigger |-> trigger, outcome |-> "returned"]]
      ELSE [arrived EXCEPT
              !.syncInFlightRef = TRUE,
              !.syncs = Append(@, [pc |-> "fetchRooms", roomIdOverride |-> roomIdOverride,
                                   activeRoomId |-> page.activeRoomId]),
              !.lastTrigger = [trigger |-> trigger, outcome |-> "started"]]

\* syncRealtimeSnapshot up to its first await: the page after the call. It
\* returns at once without a wallet or a client and while a sync is in flight;
\* otherwise it raises the flag and goes on to fetchRooms.
syncRealtimeSnapshot(roomIdOverride, trigger) ==
  LET arrived == [page EXCEPT !.triggers = @ + 1]
  IN  IF page.walletAddress = "" \/ ~page.client
      THEN [arrived EXCEPT !.lastTrigger = [trigger |-> trigger, outcome |-> "returned"]]
      ELSE IF page.syncInFlightRef
      THEN [arrived EXCEPT !.lastTrigger = [trigger |-> trigger, outcome |-> "skipped"]]
      ELSE [arrived EXCEPT
              !.syncInFlightRef = TRUE,
              !.syncs = Append(@, [pc |-> "fetchRooms", roomIdOverride |-> roomIdOverride,
                                   activeRoomId |-> page.activeRoomId]),
              !.lastTrigger = [trigger |-> trigger, outcome |-> "started"]]

\* The interval's tick, the window's focus and visibilitychange: the effect
\* installs them once the page has a wallet and a client.
PollTick ==
  /\ page.triggers < MaxTriggers
  /\ page.walletAddress # "" /\ page.client
  /\ \E trigger \in {"poll", "focus"} : page' = syncRealtimeSnapshot("", trigger)
  /\ response' = NoResponse
  /\ UNCHANGED <<rooms, proposals, events, now, createReqs, signReqs, submitReqs, clients>>

\* A postgres_changes notification for the proposals or events of the active
\* room: the channel is subscribed once the page has a room and a wallet.
ChangeNotification ==
  /\ page.triggers < MaxTriggers
  /\ page.activeRoomId # "" /\ page.walletAddress # ""
  /\ page' = syncRealtimeSnapshot(page.activeRoomId, "change")
  /\ response' = NoResponse
  /\ UNCHANGED <<rooms, proposals, events, now, createReqs, signReqs, submitReqs, clients>>

\* The sequence without its i-th element.
Without(seq, i) == SubSeq(seq, 1, i - 1) \o SubSeq(seq, i + 1, Len(seq))

\* The finally block of a sync: the flag is lowered and the call is over.
SyncEnds(p, i, how) ==
  [p EXCEPT !.syncInFlightRef = FALSE, !.syncs = Without(@, i), !.lastSync = how]

\* await fetchRooms() of a running sync: the request fails and the sync ends
\* in its catch, or the list arrives, the active room is adjusted to it, and
\* the sync goes on to the thread of its room, or to the core data without one.
SyncFetchRooms ==
  /\ \E i \in DOMAIN page.syncs :
       /\ page.syncs[i].pc = "fetchRooms"
       /\ \/ page' = SyncEnds(page, i, "threw")
          \/ \E fetchedRooms \in SyncRoomLists :
               LET sync == page.syncs[i]
                   roomId == IF sync.roomIdOverride # "" THEN sync.roomIdOverride
                             ELSE sync.activeRoomId
                   activeRoomId ==
                     IF sync.activeRoomId # "" /\ sync.activeRoomId \notin fetchedRooms
                     THEN (IF fetchedRooms = {} THEN "" ELSE "r1")
                     ELSE IF sync.activeRoomId = "" /\ fetchedRooms # {}
                     THEN "r1"
                     ELSE page.activeRoomId
               IN  page' = [page EXCEPT
                      !.activeRoomId = activeRoomId,
                      !.syncs[i].pc = IF roomId # "" THEN "fetchRoomThread"
                                      ELSE "refreshCoreData"]
  /\ response' = NoResponse
  /\ UNCHANGED <<rooms, proposals, events, now, createReqs, signReqs, submitReqs, clients>>

\* await fetchRoomThread(roomId) of a running sync: the request fails and the
\* sync ends in its catch, or the thread arrives and the page renders it.
SyncFetchRoomThread ==
  /\ \E i \in DOMAIN page.syncs :
       /\ page.syncs[i].pc = "fetchRoomThread"
       /\ \/ page' = SyncEnds(page, i, "threw")
          \/ \E thread \in SyncThreads :
               page' = Rendered([page EXCEPT !.proposals = thread,
                                             !.syncs[i].pc = "refreshCoreData"])
  /\ response' = NoResponse
  /\ UNCHANGED <<rooms, proposals, events, now, createReqs, signReqs, submitReqs, clients>>

\* await refreshCoreData() of a running sync, which catches its own errors:
\* the sessions arrive or not, and the sync ends.
SyncRefreshCoreData ==
  /\ \E i \in DOMAIN page.syncs :
       /\ page.syncs[i].pc = "refreshCoreData"
       /\ \/ page' = SyncEnds(page, i, "done")
          \/ \E session \in SessionInputs :
               page' = SyncEnds(Rendered([page EXCEPT !.activeSession = session]), i, "done")
  /\ response' = NoResponse
  /\ UNCHANGED <<rooms, proposals, events, now, createReqs, signReqs, submitReqs, clients>>

\* fetchRoomThread finds an active proposal settled: applied, failed or expired.
ThreadSettles ==
  /\ page.pc = "rendered"
  /\ \E i \in DOMAIN page.proposals, status \in TerminalStatuses :
       /\ page.proposals[i].status \in ACTIVE_STATUSES
       /\ page' = Rendered([page EXCEPT !.proposals[i].status = status])
  /\ response' = NoResponse
  /\ UNCHANGED <<rooms, proposals, events, now, createReqs, signReqs, submitReqs, clients>>

----------------------------------------------------------------------------
(* Specifications *)

\* The server's routes under bare requests, served within the proposal's
\* lifetime: the clock never passes an expiry.
Next ==
  \/ CreateRoom
  \/ CreateRead(ProposalKinds, QuorumInputs, MaxProposals)
  \/ CreateInsert
  \/ SignRead(SignatureInputs)
  \/ SignUpdate
  \/ SubmitRead(SubmitBodies)
  \/ SubmitUpdate

Spec == Init /\ [][Next]_vars

\* The same routes while time passes and the expiry sweep runs.
NextExpiry ==
  \/ Tick
  \/ CreateRoom
  \/ CreateRead({"create_session"}, {100}, MaxProposals)
  \/ CreateInsert
  \/ SignRead(PlainSignatures)
  \/ SignExpire
  \/ SignUpdate
  \/ SubmitRead(SubmitBodies)
  \/ SubmitExpire
  \/ SubmitUpdate
  \/ ExpireSweep

SpecExpiry == Init /\ [][NextExpiry]_vars

\* The routes of SpecExpiry with the expiry sweep scheduled again and again:
\* the cron job keeps calling POST /api/proposals/expire.
SpecExpiryFair == Init /\ [][NextExpiry]_vars /\ WF_vars(ExpireSweep)

\* Creators racing for the rooms' (room, kind) slots, while proposals leave the
\* slots (reported failed) and late sign updates try to re-enter them.
NextCreate ==
  \/ CreateRoom
  \/ CreateRead(ProposalKinds, {100}, MaxRacingProposals)
  \/ CreateInsert
  \/ SignRead(PlainSignatures)
  \/ SignUpdate
  \/ SubmitRead(FailedBodies)
  \/ SubmitUpdate

SpecCreate == Init /\ [][NextCreate]_vars

\* Session creation: create_session proposals of one room, one after the other,
\* and the reports of the sessions created for them.
NextSession ==
  \/ CreateRoom
  \/ CreateRead({"create_session"}, {100}, MaxRacingProposals)
  \/ CreateInsert
  \/ SignRead(PlainSignatures)
  \/ SignUpdate
  \/ SubmitRead(SessionBodies)
  \/ SubmitUpdate

SpecSession == Init /\ [][NextSession]_vars

\* Closing a room: close and purchase proposals of one room, created, signed
\* and reported applied in any order.
NextClose ==
  \/ CreateRoom
  \/ CreateRead({"operate", "close_session"}, {50, 100}, MaxRacingProposals)
  \/ CreateInsert
  \/ SignRead(PlainSignatures)
  \/ SignUpdate
  \/ SubmitRead(SessionBodies)
  \/ SubmitUpdate

SpecClose == Init /\ [][NextClose]_vars

\* Proposals created and signed through the routes, submitted by the browser
\* clients only.
NextClient ==
  \/ CreateRoom
  \/ CreateRead({"create_session"}, {100}, MaxProposals)
  \/ CreateInsert
  \/ SignRead(PlainSignatures)
  \/ SignUpdate
  \/ ClientStart
  \/ ClientExternalOk
  \/ ClientExternalFails
  \/ ClientPostSubmitted
  \/ ClientRefreshOk
  \/ ClientRefreshFails
  \/ ClientCatchRecoverable
  \/ ClientReportFailed
  \/ SubmitUpdate

SpecClient == Init /\ [][NextClient]_vars

\* The ledger of a room page: a fully signed purchase under review, over every
\* history of the thread and every report of the session service.
InitLedger ==
  /\ ServerInit
  /\ \E session \in SessionInputs, history \in Histories, review \in ReviewProposals,
        wallet \in ClientWallets :
       page = FetchedPage(session, <<review>> \o history, wallet)

NextLedger ==
  \/ PageRender
  \/ RefreshCoreData
  \/ OpenSubmitConfirm

SpecLedger == InitLedger /\ [][NextLedger]_vars

\* A participant applying the room's active proposal, of every kind, with every
\* allocation list a deposit payload can carry.
InitDeposit ==
  /\ ServerInit
  /\ \E session \in DepositSessions, proposal \in ApplyProposals, wallet \in ClientWallets :
       page = FetchedPage(session, <<proposal>>, wallet)

NextDeposit ==
  \/ PageRender
  \/ OpenSubmitConfirm
  \/ ConfirmSubmitProposal
  \/ EnsureDepositOk
  \/ EnsureDepositFails

SpecDeposit == InitDeposit /\ [][NextDeposit]_vars

\* Version numbers: the page proposes on top of a thread, proposals settle, and
\* the page proposes again.
InitVersion ==
  /\ ServerInit
  /\ \E session \in VersionedSessions, thread \in VersionedThreads, wallet \in ClientWallets :
       page = FetchedPage(session, thread, wallet)

NextVersion ==
  \/ PageRender
  \/ ProposeNext
  \/ ThreadSettles

SpecVersion == InitVersion /\ [][NextVersion]_vars

\* The proposal builders of the page: deposits, purchases and closes of every
\* amount of the form, built on every ledger, settling and built upon again.
InitBuild ==
  /\ ServerInit
  /\ \E session \in SessionInputs, history \in Histories, wallet \in ClientWallets,
        amount \in AmountInputs :
       page = [FetchedPage(session, history, wallet) EXCEPT !.proposalAmount = amount]

NextBuild ==
  \/ PageRender
  \/ createDepositProposal
  \/ createOperateProposal
  \/ createCloseProposal
  \/ ThreadSettles

SpecBuild == InitBuild /\ [][NextBuild]_vars

\* Snapshot syncs of one page: triggers arrive while syncs run, fetches
\* resolve or fail.
InitSync ==
  /\ ServerInit
  /\ \E wallet \in {"", "0xAA"}, client \in BOOLEAN, roomId \in {"", "r1"} :
       page = [ClosedPage EXCEPT !.walletAddress = wallet, !.client = client,
                                 !.activeRoomId = roomId]

NextSync ==
  \/ PollTick
  \/ ChangeNotification
  \/ SyncFetchRooms
  \/ SyncFetchRoomThread
  \/ SyncRefreshCoreData

SpecSync == InitSync /\ [][NextSync]_vars

\* The sign route over rows that were written past it: one pending proposal
\* whose signature map holds any keys, in a room stored in any case.
InitWeight ==
  /\ \E room \in StoredRooms : rooms = [r \in {"r1"} |-> room]
  /\ \E signatures \in StoredSignatureMaps, quorum \in QuorumInputs :
       proposals = << [room_id |-> "r1", kind |-> "create_session",
                       payload_json |-> [intent |-> "operate"],
                       payload_hash |-> "h1",
                       required_quorum |-> quorum,
                       signatures_json |-> signatures,
                       status |-> "pending",
                       sdk_result_json |-> NullResult,
                       expires_at |-> DEFAULT_ROOM_TTL_HOURS] >>
  /\ events = EmptyBag
  /\ now = 0
  /\ createReqs = EmptyBag
  /\ signReqs = EmptyBag
  /\ submitReqs = EmptyBag
  /\ response = NoResponse
  /\ clients = [c \in ClientWallets |-> IdleClient]
  /\ page = ClosedPage

NextWeight ==
  \/ SignRead(PlainSignatures)
  \/ SignUpdate

SpecWeight == InitWeight /\ [][NextWeight]_vars

----------------------------------------------------------------------------
(* Properties *)

Participants(i) ==
  {rooms[proposals[i].room_id].participant_a, rooms[proposals[i].room_id].participant_b}

SignedWeight(i) ==
  calculateSignedWeight(rooms[proposals[i].room_id], proposals[i].signatures_json)

Signed(i, wallet) ==
  CopiesIn(Event(proposals[i].room_id, i, wallet, "proposal_signed"), events)

\* Only a participant's submit request gets as far as its event.
Submitted(i) ==
  LET room == rooms[proposals[i].room_id]
  IN  CopiesIn(Event(proposals[i].room_id, i, room.participant_a, "proposal_submitted"),
               events)
      + CopiesIn(Event(proposals[i].room_id, i, room.participant_b, "proposal_submitted"),
                 events)

\* C1, first half: for each (room, kind) at most one proposal is pending or ready.
AtMostOneActive ==
  \A i, j \in DOMAIN proposals :
    (/\ i # j
     /\ proposals[i].room_id = proposals[j].room_id
     /\ proposals[i].kind = proposals[j].kind
     /\ proposals[i].status \in {"pending", "ready"})
      => proposals[j].status \notin {"pending", "ready"}

\* C1, second half: a create handler that reaches its insert is rejected, and
\* stores nothing, when a pending or ready proposal of its room and kind is
\* stored at that moment; otherwise it succeeds and stores its proposal.
OneWinner ==
  \A req \in BagToSet(createReqs) :
    createReqs' = createReqs (-) SetToBag({req})
      => IF \E i \in DOMAIN proposals :
              /\ proposals[i].room_id = req.room_id
              /\ proposals[i].kind = req.kind
              /\ proposals[i].status \in {"pending", "ready"}
         THEN response'.status = 500 /\ proposals' = proposals /\ events' = events
         ELSE /\ response'.status = 201
              /\ Len(proposals') = Len(proposals) + 1
              /\ proposals'[Len(proposals')].status = "pending"

\* C1: in every reachable state each (room, kind) has at most one pending or
\* ready proposal, and of create requests racing for the same room and kind
\* one wins and every other one is rejected while the winner is pending or ready.
C1_ExactlyOneActive == []AtMostOneActive /\ [][OneWinner]_vars

\* Two creators have raced: the loser has just been rejected by the index
\* while the winner's proposal is live.
C1_Witness ==
  /\ response = Response("create", 500, "UniqueViolation")
  /\ \E i \in DOMAIN proposals : proposals[i].status \in {"pending", "ready"}

\* C2: a proposal is ready or submitted only when its signature map holds
\* the signatures of both participants of its room.
C2_ReadyNeedsBothSignatures ==
  \A i \in DOMAIN proposals :
    proposals[i].status \in {"ready", "submitted"}
      => Participants(i) \subseteq DOMAIN proposals[i].signatures_json

\* C3: a proposal whose status is submitted, failed or expired keeps that
\* status in every step.
C3_TerminalNeverChanges ==
  [][\A i \in DOMAIN proposals :
       proposals[i].status \in {"submitted", "failed", "expired"}
         => proposals'[i].status = proposals[i].status]_vars

\* C4: once both participants' sign requests for a proposal (of quorum 100)
\* have completed successfully and none is still running, the proposal, while
\* still pending or ready, holds both signatures and is ready.
C4_BothSignaturesRecorded ==
  \A i \in DOMAIN proposals :
    (/\ proposals[i].required_quorum = 100
     /\ \A w \in Participants(i) : Signed(i, w) >= 1
     /\ \A req \in BagToSet(signReqs) : req.id # i
     /\ proposals[i].status \in {"pending", "ready"})
      => /\ Participants(i) \subseteq DOMAIN proposals[i].signatures_json
         /\ proposals[i].status = "ready"

\* C5: at most one submit request with outcome submitted succeeds per proposal.
C5_AtMostOneSubmitSucceeds ==
  \A i \in DOMAIN proposals : Submitted(i) <= 1

\* C6: a submit request with outcome submitted that arrives, alone, for a
\* proposal already submitted is rejected by the handler's checks: it never
\* gets to a write.
C6_SecondSubmitRejected ==
  [][\A req \in BagToSet(submitReqs') :
       ~(/\ InFlight = 0
         /\ req.outcome = "submitted"
         /\ proposals[req.id].status = "submitted")]_vars

\* The connection-closed / socket / network class of session-service errors.
TransientErrors ==
  { <<"Connection", "closed">>, <<"socket", "closed">>, <<"Network", "error">> }

\* C7, first half: the client that caught a transient error of the session
\* service ends submitProposal without a request to the server; the proposal
\* stays as it is.
TransientLeavesReady ==
  \A c \in ClientWallets :
    (/\ clients[c].pc = "caught"
     /\ ~clients[c].extOk
     /\ clients[c].error \in TransientErrors
     /\ clients'[c] # clients[c])
      => /\ clients'[c].pc = "idle"
         /\ proposals' = proposals
         /\ submitReqs' = submitReqs

\* C7, second half: the retry of the same submitter, reporting outcome
\* submitted for the proposal still ready, is accepted and sets the status to
\* submitted.
RetrySucceeds ==
  \A c \in ClientWallets :
    LET id == clients[c].id
    IN  /\ (/\ clients[c].pc = "posting"
            /\ clients[c].transientFor = id
            /\ proposals[id].status = "ready"
            /\ clients'[c] # clients[c])
             => clients'[c].pc = "awaiting_submitted"
        /\ (/\ clients[c].pc = "awaiting_submitted"
            /\ clients'[c] # clients[c])
             => /\ clients'[c].pc = "refresh"
                /\ proposals'[id].status = "submitted"
                /\ response' = Response("submit", 200, "")

\* C7: a transient error of the session service leaves the ready proposal as it
\* is, and the same submitter's retry reporting outcome submitted succeeds and
\* sets the status to submitted.
C7_TransientThenRetry == [][TransientLeavesReady /\ RetrySucceeds]_vars

\* A submitter whose earlier attempt on the proposal met a transient error has
\* retried, and the server has just accepted the report: status submitted.
C7_Witness ==
  \E c \in ClientWallets :
    /\ clients[c].pc = "refresh"
    /\ clients[c].transientFor = clients[c].id
    /\ proposals[clients[c].id].status = "submitted"
    /\ response = Response("submit", 200, "")

\* C8: when a client's report sets a proposal's status to failed, the
\* session-service call that client made for the proposal did not succeed.
C8_FailedOnlyIfExternalFailed ==
  [][\A c \in ClientWallets :
       (/\ clients[c].pc = "awaiting_failed"
        /\ clients'[c].pc = "idle"
        /\ proposals'[clients[c].id].status = "failed")
         => ~clients[c].extOk]_vars

\* C9: in every step the signed weight of the signature map of each proposal
\* (of quorum 100) does not decrease, a ready proposal does not become
\* pending, and a pending proposal becomes ready only in a step that brings
\* its weight from below 100 to 100.
C9_WeightMonotonic ==
  [][\A i \in {j \in DOMAIN proposals : proposals[j].required_quorum = 100} :
       LET weight == calculateSignedWeight(rooms[proposals[i].room_id],
                                           proposals[i].signatures_json)
           weightAfter == calculateSignedWeight(rooms'[proposals'[i].room_id],
                                                proposals'[i].signatures_json)
       IN  /\ weightAfter >= weight
           /\ ~(proposals[i].status = "ready" /\ proposals'[i].status = "pending")
           /\ (proposals[i].status = "pending" /\ proposals'[i].status = "ready")
                => weight < 100 /\ weightAfter = 100]_vars

\* C10, the selects: a sign request of a wallet whose signature is stored,
\* arriving while no other handler runs, computes the stored map and the
\* stored status as the row to write, whatever signature it carries.
RepeatKeepsFirst ==
  \A req \in BagToSet(signReqs') :
    (/\ InFlight = 0
     /\ req.op = "update"
     /\ req.wallet \in DOMAIN proposals[req.id].signatures_json)
      => /\ req.signatures = proposals[req.id].signatures_json
         /\ req.status = proposals[req.id].status

\* C10, the write: such a request, writing to the row it read, succeeds and
\* leaves the proposal as it was.
RepeatIsNoOp ==
  \A req \in BagToSet(signReqs) :
    (/\ signReqs' = signReqs (-) SetToBag({req})
     /\ req.op = "update"
     /\ req.wallet \in DOMAIN proposals[req.id].signatures_json
     /\ req.signatures = proposals[req.id].signatures_json
     /\ req.status = proposals[req.id].status)
      => /\ response' = Response("sign", 200, "")
         /\ proposals' = proposals
         /\ SignedWeight(req.id)' = SignedWeight(req.id)

\* C10: signing again with the same actor and a valid signature is a no-op
\* success: the signature map keeps the actor's first signature, the status
\* and the weight stay as they were.
C10_RepeatSignIsNoOp == [][RepeatKeepsFirst /\ RepeatIsNoOp]_vars

\* A participant's second sign request for a proposal has just succeeded, no
\* other handler running, and the map holds a signature of theirs.
C10_Witness ==
  /\ response = Response("sign", 200, "")
  /\ InFlight = 0
  /\ \E i \in DOMAIN proposals :
       \E w \in DOMAIN proposals[i].signatures_json : Signed(i, w) >= 2

\* The signature was made over the hash by the key of the wallet, whose address
\* the requests may spell in either case.
MadeBy(signature, wallet, hash) ==
  /\ signature.hash = hash
  /\ \/ signature.signer = wallet
     \/ (signature.signer = "0xAA" /\ wallet = "0xaa")
     \/ (signature.signer = "0xBB" /\ wallet = "0xbb")
     \/ (signature.signer = "0xCC" /\ wallet = "0xcc")

\* C11, the state: every signature a sign handler is about to write for its
\* wallet, and every stored signature, was made by the wallet it is filed
\* under, over the proposal's hash.
OnlyVerifiedSignatures ==
  /\ \A i \in DOMAIN proposals :
       \A w \in DOMAIN proposals[i].signatures_json :
         MadeBy(proposals[i].signatures_json[w], w, proposals[i].payload_hash)
  /\ \A req \in BagToSet(signReqs) :
       req.op = "update"
         => MadeBy(req.signatures[req.wallet], req.wallet, proposals[req.id].payload_hash)

\* C11, the step: the rejection of a signature that recovers to another
\* identity leaves the store and the handlers in flight as they were.
MismatchChangesNothing ==
  response' = Response("sign", 500, "SignatureMismatch")
    => /\ proposals' = proposals
       /\ rooms' = rooms
       /\ events' = events
       /\ signReqs' = signReqs

\* C11: a sign request whose signature recovers to an identity other than the
\* claimed signer is rejected and leaves the proposal's signature map and
\* status unchanged; no such signature is ever stored.
C11_MismatchRejected == []OnlyVerifiedSignatures /\ [][MismatchChangesNothing]_vars

\* A sign request for a stored, signable proposal has just been rejected for
\* its signature.
C11_Witness ==
  /\ response = Response("sign", 500, "SignatureMismatch")
  /\ \E i \in DOMAIN proposals : proposals[i].status \in {"pending", "ready"}

\* C12, the selects: a sign request that arrives for a pending or ready
\* proposal past its expiry is never answered at once and never gets to write
\* a signature: the handler takes its expiry branch.
LateSignTakesExpiryBranch ==
  /\ \A req \in BagToSet(signReqs') :
       (/\ CopiesIn(req, signReqs') > CopiesIn(req, signReqs)
        /\ proposals[req.id].expires_at < now)
         => req.op = "expire"
  /\ (/\ response'.route = "sign"
      /\ signReqs' = signReqs)
       => \E i \in DOMAIN proposals :
            ~(proposals[i].status \in {"pending", "ready"} /\ proposals[i].expires_at < now)

\* C12, the write: the expiry branch fails with Expired, leaves the proposal
\* expired and adds neither a signature nor an event.
ExpiryBranchExpires ==
  \A req \in BagToSet(signReqs) :
    (signReqs' = signReqs (-) SetToBag({req}) /\ req.op = "expire")
      => /\ response' = Response("sign", 400, "Expired")
         /\ proposals'[req.id].status = "expired"
         /\ proposals'[req.id].signatures_json = proposals[req.id].signatures_json
         /\ events' = events

\* C12: a sign request arriving after the expiry of a pending or ready proposal
\* fails with Expired, adds no signature and leaves the proposal expired.
C12_LateSignExpires == [][LateSignTakesExpiryBranch /\ ExpiryBranchExpires]_vars

\* A sign handler has just answered Expired for a proposal past its expiry,
\* which is now expired.
C12_Witness ==
  /\ response = Response("sign", 400, "Expired")
  /\ \E i \in DOMAIN proposals :
       proposals[i].status = "expired" /\ proposals[i].expires_at < now

\* A pending or ready proposal of the room and kind is stored.
LiveOf(roomId, kind) ==
  {i \in DOMAIN proposals :
     /\ proposals[i].room_id = roomId
     /\ proposals[i].kind = kind
     /\ proposals[i].status \in {"pending", "ready"}}

\* C13, while one is live: the duplicate rejection stores nothing, no create
\* request gets past the handler's selects, and none that got past them earlier
\* inserts.
SecondCreateFails ==
  /\ response' = Response("create", 400, "DuplicateActiveProposal")
       => /\ \E i \in DOMAIN proposals : proposals[i].status \in {"pending", "ready"}
          /\ proposals' = proposals /\ events' = events /\ createReqs' = createReqs
  /\ \A req \in BagToSet(createReqs') :
       CopiesIn(req, createReqs') > CopiesIn(req, createReqs)
         => LiveOf(req.room_id, req.kind) = {}
  /\ \A req \in BagToSet(createReqs) :
       (createReqs' = createReqs (-) SetToBag({req}) /\ LiveOf(req.room_id, req.kind) # {})
         => Len(proposals') = Len(proposals) /\ response'.status >= 400

\* C13, once none is live: a create request that reaches its insert succeeds
\* and stores a pending proposal of its room and kind.
CreateAfterTerminalSucceeds ==
  \A req \in BagToSet(createReqs) :
    (createReqs' = createReqs (-) SetToBag({req}) /\ LiveOf(req.room_id, req.kind) = {})
      => /\ response' = Response("create", 201, "")
         /\ Len(proposals') = Len(proposals) + 1
         /\ LiveOf(req.room_id, req.kind)' = {Len(proposals')}

\* C13: creating a proposal while one of its room and kind is pending or ready
\* fails and inserts nothing; once that one is submitted, failed or expired,
\* creating a new one succeeds.
C13_OneAtATime == [][SecondCreateFails /\ CreateAfterTerminalSucceeds]_vars

\* A second proposal of the room and kind has just been created after the
\* first one reached a terminal status.
C13_Witness ==
  /\ response = Response("create", 201, "")
  /\ Len(proposals) = 2
  /\ proposals[1].status \in {"submitted", "failed", "expired"}
  /\ proposals[2].room_id = proposals[1].room_id
  /\ proposals[2].kind = proposals[1].kind
  /\ proposals[2].status = "pending"

RoomParticipants(roomId) ==
  {rooms[roomId].participant_a, rooms[roomId].participant_b}

\* C14, the state: every handler that got past its participant check, every
\* stored signature and every logged event is of a participant of the room.
OnlyParticipantsAct ==
  /\ \A req \in BagToSet(createReqs) : req.actor \in RoomParticipants(req.room_id)
  /\ \A req \in BagToSet(signReqs) :
       req.op = "update" => req.wallet \in RoomParticipants(proposals[req.id].room_id)
  /\ \A req \in BagToSet(submitReqs) :
       req.op = "update" => req.wallet \in RoomParticipants(proposals[req.id].room_id)
  /\ \A i \in DOMAIN proposals :
       DOMAIN proposals[i].signatures_json \subseteq RoomParticipants(proposals[i].room_id)
  /\ \A e \in BagToSet(events) : e.actor \in RoomParticipants(e.room_id)

\* C14, the step: the NotParticipant rejection leaves the store and the
\* handlers in flight as they were.
OutsiderChangesNothing ==
  response'.error = "NotParticipant"
    => /\ response'.status = 403
       /\ UNCHANGED <<rooms, proposals, events, createReqs, signReqs, submitReqs>>

\* C14: a create, sign or submit request of a wallet that is not a participant
\* of the room is rejected: it inserts no proposal, adds no signature, sets no
\* status to ready, submitted or failed and leaves the room as it is.
C14_OutsiderRejected == []OnlyParticipantsAct /\ [][OutsiderChangesNothing]_vars

\* An outsider's submit request for a ready proposal has just been rejected.
C14_Witness ==
  /\ response = Response("submit", 403, "NotParticipant")
  /\ \E i \in DOMAIN proposals : proposals[i].status = "ready"

\* C15: every application of outcome submitted to a create_session proposal
\* leaves the room open and with a session id attached, the one the request
\* carries.
C15_SessionAttached ==
  [][\A req \in BagToSet(submitReqs) :
       (/\ submitReqs' = submitReqs (-) SetToBag({req})
        /\ req.op = "update"
        /\ req.outcome = "submitted"
        /\ proposals[req.id].kind = "create_session")
         => /\ rooms'[proposals[req.id].room_id].app_session_id \notin {"null", "absent"}
            /\ rooms'[proposals[req.id].room_id].app_session_id = req.appSessionId
            /\ rooms'[proposals[req.id].room_id].status = "open"]_vars

\* The step applies outcome submitted to a close_session proposal of the room.
AppliesClose(roomId) ==
  \E req \in BagToSet(submitReqs) :
    /\ submitReqs' = submitReqs (-) SetToBag({req})
    /\ req.op = "update"
    /\ req.outcome = "submitted"
    /\ proposals[req.id].kind = "close_session"
    /\ proposals[req.id].room_id = roomId
    /\ response' = Response("submit", 200, "")

\* C16: a room becomes closed only in a step that applies outcome submitted to
\* a close_session proposal of the room, every such step leaves the room
\* closed, and a closed room stays closed.
C16_ClosedOnlyByClose ==
  [][\A r \in DOMAIN rooms :
       /\ (rooms[r].status # "closed" /\ rooms'[r].status = "closed") => AppliesClose(r)
       /\ AppliesClose(r) => rooms'[r].status = "closed"
       /\ rooms[r].status = "closed" => rooms'[r].status = "closed"]_vars

\* A close_session proposal has just been applied: it is submitted and its
\* room is closed.
C16_Witness ==
  /\ response = Response("submit", 200, "")
  /\ \E i \in DOMAIN proposals :
       /\ proposals[i].kind = "close_session"
       /\ proposals[i].status = "submitted"
       /\ rooms[proposals[i].room_id].status = "closed"

\* C17: once a room has a session id attached, no step replaces it.
C17_SessionIdNeverReplaced ==
  [][\A r \in DOMAIN rooms :
       rooms[r].app_session_id # "null"
         => rooms'[r].app_session_id = rooms[r].app_session_id]_vars

\* The address with its hex digits in lower case.
CaseFolded(address) ==
  CASE address \in {"0xAA", "0xaa"} -> "0xaa"
    [] address \in {"0xBB", "0xbb"} -> "0xbb"
    [] address \in {"0xCC", "0xcc"} -> "0xcc"
    [] OTHER -> address

\* C18, the state: the two participants of every stored room differ, whatever
\* the case they are spelled in.
DistinctParticipants ==
  \A r \in DOMAIN rooms :
    CaseFolded(rooms[r].participant_a) # CaseFolded(rooms[r].participant_b)

\* C18, the step: a stored room keeps its participants, and the SameParticipant
\* rejection stores no room.
ParticipantsFixed ==
  /\ \A r \in DOMAIN rooms :
       /\ r \in DOMAIN rooms'
       /\ rooms'[r].participant_a = rooms[r].participant_a
       /\ rooms'[r].participant_b = rooms[r].participant_b
  /\ response' = Response("rooms", 400, "SameParticipant")
       => rooms' = rooms /\ events' = events

\* C18: every stored room has participant A different from participant B under
\* case-folded comparison, and no operation changes a room's participants.
C18_ParticipantsDistinctAndFixed == []DistinctParticipants /\ [][ParticipantsFixed]_vars

\* A room that proposals have been created, signed and applied in, down to its
\* closing, still with its two distinct participants.
C18_Witness ==
  \E r \in DOMAIN rooms :
    /\ rooms[r].status = "closed"
    /\ rooms[r].participant_a = "0xaa"
    /\ rooms[r].participant_b = "0xbb"

\* C19: no step changes the payload, payload hash, kind, room id or required
\* quorum (or the expiry) of a stored proposal.
C19_PayloadImmutable ==
  [][\A i \in DOMAIN proposals :
       /\ i \in DOMAIN proposals'
       /\ proposals'[i].payload_json = proposals[i].payload_json
       /\ proposals'[i].payload_hash = proposals[i].payload_hash
       /\ proposals'[i].kind = proposals[i].kind
       /\ proposals'[i].room_id = proposals[i].room_id
       /\ proposals'[i].required_quorum = proposals[i].required_quorum
       /\ proposals'[i].expires_at = proposals[i].expires_at]_vars

\* A proposal that was signed and applied and then expired by a late request:
\* its signature map, result and status have all been written.
C19_Witness ==
  \E i \in DOMAIN proposals :
    /\ proposals[i].status = "expired"
    /\ DOMAIN proposals[i].signatures_json # {}
    /\ proposals[i].sdk_result_json # NullResult

\* C20: every step that inserts or changes a room or a proposal appends an
\* event.
C20_EventPerTransition ==
  [][(rooms' # rooms \/ proposals' # proposals)
       => BagCardinality(events') = BagCardinality(events) + 1]_vars

\* The proposal is pending or ready and its expiry is earlier than now.
Overdue(i) ==
  proposals[i].status \in {"pending", "ready"} /\ proposals[i].expires_at < now

\* C21: a sweep sets the status of exactly the overdue proposals to expired
\* and changes nothing else of any proposal or room; no proposal is overdue
\* after it, so another sweep, by the same or another caller, changes nothing
\* more.
C21_SweepExpiresExactlyOverdue ==
  [][response' = Response("expire", 200, "")
       => /\ DOMAIN proposals' = DOMAIN proposals
          /\ \A i \in DOMAIN proposals :
               proposals'[i] = IF Overdue(i)
                               THEN [proposals[i] EXCEPT !.status = "expired"]
                               ELSE proposals[i]
          /\ \A i \in DOMAIN proposals' : ~Overdue(i)'
          /\ rooms' = rooms
          /\ UNCHANGED <<createReqs, signReqs, submitReqs>>]_vars

\* A sweep has just run over a signed proposal past its expiry: the proposal
\* is expired and still holds its signatures.
C21_Witness ==
  /\ response = Response("expire", 200, "")
  /\ \E i \in DOMAIN proposals :
       /\ proposals[i].status = "expired"
       /\ proposals[i].expires_at < now
       /\ DOMAIN proposals[i].signatures_json # {}


\* The proposal the page is about to apply.
UnderReview == page.proposals[activeProposalOf(page.proposals)]

IsDeposit(proposal) ==
  proposal.kind = "operate" /\ proposal.payload_json.intent = "deposit"

PageParticipants ==
  {normalizeAddress(page.activeRoom.participant_a),
   normalizeAddress(page.activeRoom.participant_b)}

\* The participant's current allocation, as the page computed it.
CurrentOf(who) ==
  LET i == CHOOSE j \in DOMAIN page.allocations :
             normalizeAddress(page.allocations[j].participant) = who
  IN  page.allocations[i].amount

\* The participants whose allocation the proposal under review raises.
Increasing ==
  {who \in PageParticipants :
     \E i \in DOMAIN UnderReview.payload_json.allocations :
       /\ normalizeAddress(UnderReview.payload_json.allocations[i].participant) = who
       /\ UnderReview.payload_json.allocations[i].amount > CurrentOf(who)}

\* The page has called, or is about to call, the session service.
ReachedExternal == page.pc = "external"

\* C22: a ready deposit proposal whose allocation list raises no participant's
\* allocation, or more than one participant's, never reaches the session
\* service: it reaches it only when exactly one participant's allocation rises.
C22_DepositNeedsOneDepositor ==
  (ReachedExternal /\ IsDeposit(UnderReview)) => Cardinality(Increasing) = 1

TimeoutErrors == { <<"request", "timed", "out">> }

\* C24: the client that caught a timeout of the call to the session service
\* ends submitProposal without reporting outcome failed to the server; the
\* proposal stays ready.
C24_TimeoutIsTransient ==
  [][\A c \in ClientWallets :
       (/\ clients[c].pc = "caught"
        /\ ~clients[c].extOk
        /\ clients[c].error \in TimeoutErrors
        /\ clients'[c] # clients[c])
         => /\ clients'[c].pc = "idle"
            /\ proposals' = proposals
            /\ submitReqs' = submitReqs]_vars


\* The latest submitted proposal of the thread the page fetched, newest first;
\* 0 when none was submitted.
LatestSubmitted ==
  IF \E i \in DOMAIN page.proposals : page.proposals[i].status = "submitted"
  THEN CHOOSE i \in DOMAIN page.proposals :
         /\ page.proposals[i].status = "submitted"
         /\ \A j \in 1..(i - 1) : page.proposals[j].status # "submitted"
  ELSE 0

\* The entries of an allocation list that state an amount for the participant
\* in the room's asset.
EntriesFor(list, who) ==
  {i \in DOMAIN list :
     /\ normalizeAddress(list[i].participant) = who
     /\ assetToLowerCase(list[i].asset) = assetToLowerCase(page.activeRoom.asset_symbol)}

\* The amount the list states for the participant, or the given amount when
\* the list does not state one.
StatedOr(list, who, otherwise) ==
  IF EntriesFor(list, who) = {} THEN otherwise
  ELSE list[CHOOSE i \in EntriesFor(list, who) :
              \A j \in EntriesFor(list, who) : j <= i].amount

\* C25: the current allocation of each participant is the amount the latest
\* submitted proposal of the room states for it in the room's asset, and zero
\* for both participants when no proposal has been submitted.
C25_AllocationsFromLatestSubmitted ==
  page.pc \notin {"closed", "fetched"}
    => \A who \in PageParticipants :
         CurrentOf(who) =
           IF LatestSubmitted = 0 THEN 0
           ELSE StatedOr(page.proposals[LatestSubmitted].payload_json.allocations, who, 0)

\* C26: computing the current allocations again for the same room and the same
\* submitted history returns the same amounts, whatever else has changed.
C26_AllocationsDependOnHistoryOnly ==
  [][(/\ page.pc = "rendered"
      /\ page'.pc = "refreshed"
      /\ page'.activeRoom = page.activeRoom
      /\ page'.proposals = page.proposals)
       => page'.allocations = page.allocations]_vars

\* C27: the preview has one row per participant; before is the participant's
\* current allocation, after is the amount the proposal's allocation list
\* states for the participant in the room's asset (before when it states none),
\* delta is after minus before; moving 1,000,000 from A, who holds 5,000,000,
\* to B, who holds 0, shows -1,000,000 for A and +1,000,000 for B.
C27_PreviewRows ==
  page.pc = "confirm"
    => /\ Len(page.rows) = 2
       /\ page.rows[1].participant = page.activeRoom.participant_a
       /\ page.rows[2].participant = page.activeRoom.participant_b
       /\ \A i \in 1..2 :
            LET who == normalizeAddress(page.rows[i].participant)
            IN  /\ page.rows[i].before = CurrentOf(who)
                /\ page.rows[i].after =
                     StatedOr(UnderReview.payload_json.allocations, who, CurrentOf(who))
                /\ page.rows[i].delta = page.rows[i].after - page.rows[i].before
       /\ (/\ page.rows[1].before = 5000000
           /\ page.rows[2].before = 0
           /\ UnderReview.payload_json.allocations = AllocationA4B1)
            => page.rows[1].delta = -1000000 /\ page.rows[2].delta = 1000000

\* The preview of the purchase that moves 1,000,000 from A, who holds
\* 5,000,000, to B, who holds 0.
C27_Witness ==
  /\ page.pc = "confirm"
  /\ page.rows[1].before = 5000000
  /\ page.rows[2].before = 0
  /\ UnderReview.payload_json.allocations = AllocationA4B1
  /\ page.rows[1].delta = -1000000
  /\ page.rows[2].delta = 1000000


\* The version a fetched proposal is known by: none when the field is left out
\* or is not a number.
VersionsOf(proposal) ==
  LET field == IF proposal.kind = "create_session"
               THEN proposal.sdk_result_json.version
               ELSE proposal.payload_json.version
  IN  CASE field.type = "number" -> {field.number}
        [] field.type = "string" ->
             IF Number(field.text).finite THEN {Number(field.text).value} ELSE {}
        [] OTHER -> IF proposal.kind = "create_session" THEN {1} ELSE {}

\* The versions of the submitted proposals of a thread.
SubmittedVersions(thread) ==
  UNION { VersionsOf(thread[i]) :
            i \in {j \in DOMAIN thread : thread[j].status = "submitted"} }

\* The versions the page knows: the session's and the submitted proposals'.
KnownVersions ==
  SubmittedVersions(page.proposals)
    \cup (IF page.activeSession.present /\ page.activeSession.version # <<>>
          THEN {page.activeSession.version[1]} ELSE {})

\* The version the page assigns to its next proposal is one more than the
\* greatest version it knows, and 2 when it knows none.
AssignsAboveKnown ==
  page.pc = "rendered"
    => /\ \A v \in KnownVersions : page.nextVersion > v
       /\ IF KnownVersions = {} THEN page.nextVersion = 2
          ELSE \E v \in KnownVersions : page.nextVersion = v + 1

\* A proposal that becomes submitted carries a version greater than the version
\* of every proposal submitted before it.
SubmittedInIncreasingOrder ==
  \A i \in DOMAIN page.proposals :
    (/\ Len(page'.proposals) = Len(page.proposals)
     /\ page.proposals[i].status \in ACTIVE_STATUSES
     /\ page'.proposals[i].status = "submitted")
      => \A v \in VersionsOf(page.proposals[i]) :
           \A earlier \in SubmittedVersions(page.proposals) : v > earlier

\* C28: the session version assigned to a new proposal is strictly greater than
\* the session's known version and than the version of every submitted proposal
\* of the fetched history (the maximum plus one, or 2 when none is known), so
\* the versions of successively submitted proposals strictly increase.
C28_VersionsStrictlyIncrease ==
  []AssignsAboveKnown /\ [][SubmittedInIncreasingOrder]_vars


\* The transitions of the proposal lifecycle.
LifecycleEdges ==
  { <<"pending", "ready">>, <<"ready", "submitted">>, <<"ready", "failed">>,
    <<"pending", "expired">>, <<"ready", "expired">> }

\* C29: every change of a proposal's status follows one of pending -> ready,
\* ready -> submitted, ready -> failed, pending -> expired, ready -> expired; in
\* particular submitted and failed are entered from ready only.
C29_OnlyLifecycleEdges ==
  [][\A i \in DOMAIN proposals :
       proposals'[i].status # proposals[i].status
         => <<proposals[i].status, proposals'[i].status>> \in LifecycleEdges]_vars


\* C30: with the expiry sweep invoked again and again (weak fairness), a
\* proposal that is pending or ready past its expiry while no participant's
\* request is being served eventually has status expired; no participant has
\* to act for it.
C30_OverdueEventuallyExpired ==
  \A i \in 1..MaxProposals :
    (i \in DOMAIN proposals /\ Overdue(i) /\ InFlight = 0)
      ~> (i \in DOMAIN proposals /\ proposals[i].status = "expired")

\* The sweep has just expired a fully signed proposal past its expiry, with no
\* participant's request being served.
C30_Witness ==
  /\ response = Response("expire", 200, "")
  /\ InFlight = 0
  /\ \E i \in DOMAIN proposals :
       /\ proposals[i].status = "expired"
       /\ proposals[i].expires_at < now
       /\ Cardinality(DOMAIN proposals[i].signatures_json) = 2


\* C31: the signed weight the sign route computes over a signature map is 50
\* times the number of the room's participants whose address, in lower case, is
\* the lower-case form of a key of the map: 0, 50 or 100, whatever the case of
\* the keys; a key that is no participant's adds nothing.
C31_WeightCountsParticipants ==
  \A req \in BagToSet(signReqs) :
    req.op = "update"
      => LET room == rooms[proposals[req.id].room_id]
             signers == {who \in {room.participant_a, room.participant_b} :
                           \E k \in DOMAIN req.signatures :
                             CaseFolded(k) = CaseFolded(who)}
         IN  /\ req.signedWeight = 50 * Cardinality(signers)
             /\ req.signedWeight \in {0, 50, 100}

\* The route weighs a map that holds an outsider's key and the second
\* participant's key in upper case only, with the first participant signing.
C31_Witness ==
  \E req \in BagToSet(signReqs) :
    /\ req.op = "update"
    /\ req.wallet = "0xaa"
    /\ DOMAIN req.signatures = {"0xaa", "0xBB", "0xCC"}
    /\ req.signedWeight = 100


\* The amount of the form in minor units of the room's asset.
MinorUnits(text) ==
  CASE text = "-1" -> -1000000
    [] text = "0" -> 0
    [] text = "1" -> 1000000
    [] text = "1.25" -> 1250000
    [] text = "6" -> 6000000

\* The step adds a proposal to the thread: a builder's proposal was created.
Built == Len(page'.proposals) = Len(page.proposals) + 1

IsPurchase(proposal) ==
  proposal.kind = "operate" /\ proposal.payload_json.intent = "operate"

\* The participant whose wallet the page holds, and the other one.
Requester == normalizeAddress(page.walletAddress)

Counterparty == CHOOSE who \in PageParticipants : who # Requester

\* The amount a built payload states for the participant.
BuiltAmount(who) ==
  LET list == page'.proposals[1].payload_json.allocations
      i == CHOOSE j \in DOMAIN list : normalizeAddress(list[j].participant) = who
  IN  list[i].amount

\* C32: every allocation amount of a payload built by the deposit, purchase and
\* close builders is a non-negative integer of minor units, and a purchase whose
\* amount exceeds the requester's current allocation creates no proposal.
C32_BuiltAmountsNonNegative ==
  [][Built
       => /\ \A i \in DOMAIN page'.proposals[1].payload_json.allocations :
               page'.proposals[1].payload_json.allocations[i].amount \in Nat
          /\ IsPurchase(page'.proposals[1])
               => MinorUnits(page.proposalAmount) <= CurrentOf(Requester)]_vars

\* A purchase of the requester's whole allocation was built: the requester's
\* amount in the payload is zero.
C32_Witness ==
  /\ page.pc = "rendered"
  /\ page.proposals # <<>>
  /\ IsPurchase(page.proposals[1])
  /\ page.proposals[1].status = "pending"
  /\ \E i \in DOMAIN page.proposals[1].payload_json.allocations :
       /\ normalizeAddress(page.proposals[1].payload_json.allocations[i].participant)
            = Requester
       /\ page.proposals[1].payload_json.allocations[i].amount = 0
  /\ page.proposalAmount = "1"

\* C38: a purchase built by the client keeps the session total: the two amounts
\* of its payload add up to what the two current allocations it was built from
\* add up to, the requester's amount being lower by exactly what the
\* counterparty's is higher, the amount of the form.
C38_PurchaseConservesTotal ==
  [][(Built /\ IsPurchase(page'.proposals[1]))
       => /\ Len(page'.proposals[1].payload_json.allocations) = 2
          /\ BuiltAmount(Requester) + BuiltAmount(Counterparty)
               = CurrentOf(Requester) + CurrentOf(Counterparty)
          /\ CurrentOf(Requester) - BuiltAmount(Requester)
               = MinorUnits(page.proposalAmount)
          /\ BuiltAmount(Counterparty) - CurrentOf(Counterparty)
               = MinorUnits(page.proposalAmount)]_vars

\* The first participant's purchase of 1,250,000 was built on allocations of
\* 4,000,000 and 1,000,000: the payload states 2,750,000 and 2,250,000.
C38_Witness ==
  /\ page.pc = "rendered"
  /\ page.proposals # <<>>
  /\ IsPurchase(page.proposals[1])
  /\ page.proposals[1].status = "pending"
  /\ page.proposalAmount = "1.25"
  /\ page.allocations =
       << [participant |-> "0xaa", asset |-> "usdc", amount |-> 4000000],
          [participant |-> "0xbb", asset |-> "usdc", amount |-> 1000000] >>
  /\ page.proposals[1].payload_json.allocations =
       << [participant |-> "0xaa", asset |-> "usdc", amount |-> 2750000],
          [participant |-> "0xbb", asset |-> "usdc", amount |-> 2250000] >>


\* C33: once a close_session proposal has been applied and the room is closed,
\* no operate proposal is created in the room and none of the room's operate
\* proposals becomes submitted, those created before the close included.
C33_ClosedRoomTakesNoOperate ==
  [][\A r \in DOMAIN rooms :
       rooms[r].status = "closed"
         => /\ \A i \in DOMAIN proposals' \ DOMAIN proposals :
                 ~(proposals'[i].room_id = r /\ proposals'[i].kind = "operate")
            /\ \A i \in DOMAIN proposals :
                 (proposals[i].room_id = r /\ proposals[i].kind = "operate"
                  /\ proposals[i].status # "submitted")
                   => proposals'[i].status # "submitted"]_vars


\* The weight of a proposal's stored signatures: 50 for each participant of
\* its room who has a key in the map, whatever the spelling.
StoredWeight(i) ==
  50 * Cardinality({who \in Participants(i) :
                      \E k \in DOMAIN proposals[i].signatures_json :
                        CaseFolded(k) = CaseFolded(who)})

\* C34: every submitted proposal's stored signatures weigh at least its
\* required quorum, however sign and submit requests interleave.
C34_SubmittedHasQuorum ==
  \A i \in DOMAIN proposals :
    proposals[i].status = "submitted"
      => StoredWeight(i) >= proposals[i].required_quorum

\* C35: a pending proposal's stored signatures weigh less than its required
\* quorum, and a ready proposal's weigh at least its quorum.
C35_StatusMatchesWeight ==
  \A i \in DOMAIN proposals :
    /\ proposals[i].status = "pending"
         => StoredWeight(i) < proposals[i].required_quorum
    /\ proposals[i].status = "ready"
         => StoredWeight(i) >= proposals[i].required_quorum


\* A stale sign request has rewound a proposal that both participants signed
\* to one signature, and the status went back to pending with it.
C35_Witness ==
  \E i \in DOMAIN proposals :
    /\ proposals[i].status = "pending"
    /\ StoredWeight(i) = 50
    /\ Signed(i, "0xaa") >= 2
    /\ Signed(i, "0xbb") >= 1


\* C36: every key of a proposal's signature map is the lower-case address of
\* participant A or B of the proposal's room, so the map has at most two
\* entries.
C36_KeysAreNormalizedParticipants ==
  \A i \in DOMAIN proposals :
    /\ \A k \in DOMAIN proposals[i].signatures_json :
         /\ k = CaseFolded(k)
         /\ \E who \in Participants(i) : k = CaseFolded(who)
    /\ Cardinality(DOMAIN proposals[i].signatures_json) <= 2

\* Both participants' keys are stored in a map, and a sign request of an
\* outsider has just been refused.
C36_Witness ==
  /\ response = Response("sign", 403, "NotParticipant")
  /\ \E i \in DOMAIN proposals :
       DOMAIN proposals[i].signatures_json = {"0xaa", "0xbb"}


\* C37: a proposal the page creates carries a session version that no active
\* (pending or ready) proposal of the room's thread carries, so no two active
\* proposals of a room share a version.
C37_ActiveVersionsDistinct ==
  [][Built
       => \A i \in DOMAIN page.proposals :
            page.proposals[i].status \in ACTIVE_STATUSES
              => page.proposals[i].payload_json.version
                   # page'.proposals[1].payload_json.version]_vars


\* A poll tick, focus event or change notification arrives in the step.
TriggerArrives == page'.triggers = page.triggers + 1

\* C39, the state: at most one snapshot sync is in flight, and the flag is up
\* exactly while one is.
AtMostOneSync ==
  /\ Len(page.syncs) <= 1
  /\ page.syncInFlightRef <=> Len(page.syncs) = 1

\* C39, the step: a trigger arriving while a sync runs is skipped; a sync that
\* ends, by a thrown fetch as well, leaves the flag down; and a trigger arriving
\* at a page with wallet and client while no sync runs starts one.
SkipsAndClears ==
  /\ (TriggerArrives /\ Len(page.syncs) >= 1)
       => /\ page'.syncs = page.syncs
          /\ page'.proposals = page.proposals
          /\ page'.activeSession = page.activeSession
  /\ Len(page'.syncs) < Len(page.syncs) => ~page'.syncInFlightRef
  /\ (TriggerArrives /\ Len(page.syncs) = 0 /\ page.walletAddress # "" /\ page.client)
       => Len(page'.syncs) = 1 /\ page'.syncs[1].pc = "fetchRooms"

\* C39: within one client at most one snapshot sync (rooms, then thread, then
\* core data) is in flight at a time: a trigger arriving while one runs is
\* skipped, and the in-flight flag is cleared when the sync ends, a throwing
\* fetch included, so that a later trigger starts a new sync.
C39_OneSyncAtATime == []AtMostOneSync /\ [][SkipsAndClears]_vars

\* A sync ended by a thrown fetch, a later trigger started a new one, and a
\* trigger arriving while that one fetches the thread was skipped.
C39_Witness ==
  /\ page.lastSync = "threw"
  /\ Len(page.syncs) = 1
  /\ page.syncs[1].pc = "fetchRoomThread"
  /\ page.lastTrigger.outcome = "skipped"

====
